---- MODULE Spec2Model ----
(***************************************************************************)
(* MediFriend (hms-tool): the medication-reminder scheduler, the follow-up *)
(* reminder job, the doctor-rating aggregate and the notification          *)
(* retention, as state machines over the rows of the SQLite tables they    *)
(* read and write.                                                         *)
(*                                                                         *)
(*   Spec        prescriptions, reminder windows and the daily medication  *)
(*               job (src/scheduler.py, src/routes/doctor.py)              *)
(*   SpecRx      write_prescription over the full menu of form inputs      *)
(*   SpecJobs    the two daily jobs side by side                           *)
(*   SpecRating  concurrent rate_doctor / create_rating requests           *)
(*   SpecFollowUp  follow-ups scheduled, completed and booked, and the     *)
(*               daily follow-up reminder job                              *)
(*   SpecNotif   fetching, reading and sweeping notifications              *)
(*   SpecEmail   the sections of the reminder email over stored timings    *)
(*   SpecDays    one window followed day by day, the job once a day        *)
(***************************************************************************)
EXTENDS Integers, Sequences, FiniteSets, TLC

\* ------------------------------------------------------------------ bounds
\* Number of requests, midnights and job triggers in one behaviour.
MaxEvents == 5
\* Day-of-month of the first modelled day: the modelled days cross from the
\* one-digit days (09) to the two-digit days (10).
FirstDay == 8

Patients == {1, 2}

\* users.id of the doctors.
Doctors == {3, 4}

\* The threads that serve requests at the same time.
Workers == {1, 2}

\* ------------------------------------------------------------ text helpers
\* A text is a sequence of characters, each a one-symbol string.  "SUP2" is
\* U+00B2 (superscript two) and "days" the word appended by the form handler.
Space == " "
AsciiDigits == <<"0", "1", "2", "3", "4", "5", "6", "7", "8", "9">>

IsAsciiDigit(c) == \E i \in 1..10 : AsciiDigits[i] = c

DigitValue(c) == (CHOOSE i \in 1..10 : AsciiDigits[i] = c) - 1

\* str.isdigit() of one character: the decimal digits and the superscript
\* digits both answer True.
CharIsDigit(c) == IsAsciiDigit(c) \/ c = "SUP2"

\* str.isdigit(): at least one character and all of them digits.
IsDigit(s) == Len(s) > 0 /\ \A i \in 1..Len(s) : CharIsDigit(s[i])

RECURSIVE LStrip(_)
LStrip(s) == IF s # <<>> /\ Head(s) = Space THEN LStrip(Tail(s)) ELSE s

RECURSIVE RStrip(_)
RStrip(s) ==
    IF s # <<>> /\ s[Len(s)] = Space THEN RStrip(SubSeq(s, 1, Len(s) - 1)) ELSE s

\* str.strip()
Strip(s) == LStrip(RStrip(s))

RECURSIVE TakeWord(_)
TakeWord(s) ==
    IF s = <<>> \/ Head(s) = Space THEN <<>> ELSE <<Head(s)>> \o TakeWord(Tail(s))

\* str.split()[0]: the first whitespace-delimited word (s holds one).
FirstWord(s) == TakeWord(LStrip(s))

\* int(s) accepts the decimal digits only; on anything else it raises
\* ValueError.
IntParses(s) == Len(s) > 0 /\ \A i \in 1..Len(s) : IsAsciiDigit(s[i])

RECURSIVE IntOf(_)
IntOf(s) ==
    IF s = <<>> THEN 0
    ELSE 10 * IntOf(SubSeq(s, 1, Len(s) - 1)) + DigitValue(s[Len(s)])

\* ------------------------------------------------------------ date helpers
\* A day is its day-of-month number (year and month are the same for every
\* modelled day).  strftime('%Y-%m-%d') writes it zero-padded to two digits;
\* the tables hold that text and SQLite compares it as text.
StrftimeUnpadded(d) == IF d < 10 THEN <<d>> ELSE <<d \div 10, d % 10>>

strftime(d) == <<d \div 10, d % 10>>

\* The date a stored text stands for.
DateOf(t) == IF Len(t) = 1 THEN t[1] ELSE 10 * t[1] + t[2]

\* SQL NULL.
NULL == <<>>

\* SQLite's comparison of two TEXT values (BINARY collation): the first
\* differing character decides, a proper prefix is smaller.
RECURSIVE TextLess(_, _)
TextLess(a, b) ==
    IF b = <<>> THEN FALSE
    ELSE IF a = <<>> THEN TRUE
    ELSE IF Head(a) # Head(b) THEN Head(a) < Head(b)
    ELSE TextLess(Tail(a), Tail(b))

TextLeq(a, b) == a = b \/ TextLess(a, b)

\* ------------------------------------------------------------------- state
VARIABLES
    today,                \* get_ist_today(): the current local day
    prescriptions,        \* table prescriptions, by id
    medication_reminders, \* table medication_reminders, by id
    notifications,        \* table notifications, by id
    pc,                   \* where send_daily_medication_reminders stands
    job_today,            \* its local `today`
    patients_data,        \* its local dict, in insertion order
    reminder_ids,         \* its local list
    cursor,               \* how many patients its send loop has handled
    mailbox,              \* the messages mail.send accepted today, in order,
                          \* each with the lists of its sections and the
                          \* reminder rows that fed it
    last_run,             \* what today's latest run of the medication job did
    events,               \* requests, midnights and job triggers so far
    windows_dirty,        \* a window was written since that run began
    appointments,         \* table appointments, by id
    fu_pc,                \* where send_followup_appointment_reminders stands
    followups,            \* its local list `appointments`: the rows selected
    appt,                 \* how many of them its send loop has handled
    followup_run,         \* what the latest run of the follow-up job did
    doctor_ratings,       \* table doctor_ratings, by id
    doctor_details,       \* table doctor_details, by the doctor's user_id
    rate_doctor,          \* the rate_doctor requests in flight, by worker
    fetched               \* what the latest get_user_notifications returned

medVars == <<today, prescriptions, medication_reminders, notifications, pc,
             job_today, patients_data, reminder_ids, cursor, mailbox,
             last_run, events, windows_dirty>>

fuVars == <<appointments, fu_pc, followups, appt, followup_run>>

rateVars == <<doctor_ratings, doctor_details, rate_doctor>>

webVars == <<fetched>>

vars == <<medVars, fuVars, rateVars, webVars>>

\* ------------------------------------------------------- write_prescription
\* The submitted form: the parallel lists request.form.getlist() returns and
\* the diagnosis field.
Form(names, dosages, durations, morning, afternoon, evening, night) ==
    [medicine_name |-> names, medicine_dosage |-> dosages,
     medicine_duration |-> durations, medicine_timing_morning |-> morning,
     medicine_timing_afternoon |-> afternoon,
     medicine_timing_evening |-> evening, medicine_timing_night |-> night,
     diagnosis |-> <<"d">>]

Min(a, b) == IF a < b THEN a ELSE b

Max(a, b) == IF a < b THEN b ELSE a

\* ', '.join(timing)
RECURSIVE Join(_)
Join(words) ==
    IF words = <<>> THEN <<>>
    ELSE IF Len(words) = 1 THEN words
    ELSE <<Head(words), ", ">> \o Join(Tail(words))

\* The timing list of form row idx: a period is added when the row's index
\* lies in that period's checkbox list and the value there is not empty.
Checked(list, idx) == idx <= Len(list) /\ list[idx] # ""

TimingOf(form, idx) ==
    (IF Checked(form.medicine_timing_morning, idx) THEN <<"Morning">> ELSE <<>>)
    \o (IF Checked(form.medicine_timing_afternoon, idx) THEN <<"Afternoon">> ELSE <<>>)
    \o (IF Checked(form.medicine_timing_evening, idx) THEN <<"Evening">> ELSE <<>>)
    \o (IF Checked(form.medicine_timing_night, idx) THEN <<"Night">> ELSE <<>>)

\* medicine_data of form row idx.  A medicine without a 'timing' key reads
\* back as the empty text (med.get('timing', '')).
MedicineData(form, idx) ==
    [name |-> Strip(form.medicine_name[idx]),
     dosage |-> Strip(form.medicine_dosage[idx]),
     duration |-> Strip(form.medicine_duration[idx]) \o <<Space, "days">>,
     timing |-> Join(TimingOf(form, idx))]

\* Whether row idx passes `name.strip() and dosage.strip() and duration.strip()`.
RowFilled(form, idx) ==
    /\ Strip(form.medicine_name[idx]) # <<>>
    /\ Strip(form.medicine_dosage[idx]) # <<>>
    /\ Strip(form.medicine_duration[idx]) # <<>>

\* The loop over zip(medicine_names, medicine_dosages, medicine_durations):
\* the list `medicines` after rows idx..n.
RECURSIVE CollectFrom(_, _, _)
CollectFrom(form, idx, n) ==
    IF idx > n THEN <<>>
    ELSE (IF RowFilled(form, idx) THEN <<MedicineData(form, idx)>> ELSE <<>>)
         \o CollectFrom(form, idx + 1, n)

CollectMedicines(form) ==
    CollectFrom(form, 1,
                Min(Len(form.medicine_name),
                    Min(Len(form.medicine_dosage), Len(form.medicine_duration))))

\* duration_str.split()[0].isdigit() holds but int() raises ValueError.
DurationRaises(med) ==
    LET w == FirstWord(med.duration) IN IsDigit(w) /\ ~IntParses(w)

\* int(duration_str.split()[0]) if duration_str.split()[0].isdigit() else 0
DurationDays(med) ==
    LET w == FirstWord(med.duration) IN IF IsDigit(w) THEN IntOf(w) ELSE 0

\* The loop `max_duration = max(max_duration, duration_days)`.
RECURSIVE MaxDuration(_)
MaxDuration(medicines) ==
    IF medicines = <<>> THEN 0
    ELSE Max(DurationDays(Head(medicines)), MaxDuration(Tail(medicines)))

\* Whether the try block reaches create_medication_reminder: there are
\* medicines, no duration raises, and the maximum is positive.
CreatesReminder(medicines) ==
    /\ medicines # <<>>
    /\ \A i \in 1..Len(medicines) : ~DurationRaises(medicines[i])
    /\ MaxDuration(medicines) > 0

\* The inserted row filed under the first prescription, whichever was written.
ReminderRowOfFirst(prescription_id, patient_id, max_duration_days, day) ==
    [prescription_id |-> 1, patient_id |-> patient_id,
     start_date |-> strftime(day),
     end_date |-> strftime(day + max_duration_days),
     last_sent_date |-> NULL, is_active |-> 1]

\* The inserted row with a window of max_duration_days days, first and last
\* day counted.
ReminderRowOfDays(prescription_id, patient_id, max_duration_days, day) ==
    [prescription_id |-> prescription_id, patient_id |-> patient_id,
     start_date |-> strftime(day),
     end_date |-> strftime(day + max_duration_days - 1),
     last_sent_date |-> NULL, is_active |-> 1]

\* create_medication_reminder: the row it inserts.
ReminderRow(prescription_id, patient_id, max_duration_days, day) ==
    [prescription_id |-> prescription_id, patient_id |-> patient_id,
     start_date |-> strftime(day),
     end_date |-> strftime(day + max_duration_days),
     last_sent_date |-> NULL, is_active |-> 1]

\* create_prescription: the row it inserts (medicines_json holds the list
\* json.dumps was given; created_at orders as the ids do).
PrescriptionRow(patient_id, medicines) ==
    [patient_id |-> patient_id, medicines_json |-> medicines]

\* create_notification from write_prescription: the row it inserts.
PrescriptionNotification(patient_id, prescription_id, day) ==
    [user_id |-> patient_id, type |-> "PRESCRIPTION_WRITTEN", is_read |-> 0,
     prescription_id |-> prescription_id, created_at |-> day]

\* POST /write-prescription/<patient_id>/<appointment_id>
WritePrescription(patient_id, form) ==
    LET medicines == CollectMedicines(form)
        prescription_id == Len(prescriptions) + 1
    IN /\ events < MaxEvents
       /\ events' = events + 1
       /\ Strip(form.diagnosis) # <<>>
       /\ prescriptions' =
              Append(prescriptions, PrescriptionRow(patient_id, medicines))
       /\ notifications' =
              Append(notifications,
                     PrescriptionNotification(patient_id, prescription_id, today))
       /\ IF CreatesReminder(medicines)
          THEN /\ medication_reminders' =
                      Append(medication_reminders,
                             ReminderRow(prescription_id, patient_id,
                                         MaxDuration(medicines), today))
               /\ windows_dirty' = TRUE
          ELSE UNCHANGED <<medication_reminders, windows_dirty>>
       /\ UNCHANGED <<today, pc, job_today, patients_data, reminder_ids,
                      cursor, mailbox, last_run>>
       /\ UNCHANGED <<fuVars, rateVars, webVars>>

\* An UPDATE without its WHERE clause: every window is closed.
DeactivatedAll(prescription_id) ==
    [i \in DOMAIN medication_reminders |->
        [medication_reminders[i] EXCEPT !.is_active = 0]]

\* deactivate_medication_reminder(prescription_id)
DeactivatedRows(prescription_id) ==
    [i \in DOMAIN medication_reminders |->
        IF medication_reminders[i].prescription_id = prescription_id
        THEN [medication_reminders[i] EXCEPT !.is_active = 0]
        ELSE medication_reminders[i]]

DeactivateMedicationReminder(prescription_id) ==
    /\ events < MaxEvents
    /\ events' = events + 1
    /\ medication_reminders' = DeactivatedRows(prescription_id)
    /\ windows_dirty' =
           (windows_dirty \/ medication_reminders' # medication_reminders)
    /\ UNCHANGED <<today, prescriptions, notifications, pc, job_today,
                   patients_data, reminder_ids, cursor, mailbox, last_run>>
    /\ UNCHANGED <<fuVars, rateVars, webVars>>

\* No run of the medication job today yet.
NoRun ==
    [day |-> 0, selected |-> {}, attempts |-> <<>>, outcome |-> "none",
     mail_before |-> 0, repeats |-> "no"]

\* No get_user_notifications call yet.
NoFetch == [user_id |-> 0, unread_only |-> FALSE, rows |-> <<>>]

\* A worker that serves no rate_doctor request; flash is the message its
\* last request left for the user.
NoRequest ==
    [pc |-> "idle", doctor_id |-> 0, patient_id |-> 0, appointment_id |-> 0,
     rating |-> 0, result |-> <<>>, flash |-> ""]

\* The worker after a request that ended with flash(message).
Flashed(message) == [NoRequest EXCEPT !.flash = message]

\* doctor_details as registration leaves it: average_rating REAL DEFAULT 0.0
\* (the fraction 0/1), total_ratings INTEGER DEFAULT 0.
NoRatings == [average_rating |-> <<0, 1>>, total_ratings |-> 0]

\* No run of the follow-up job today yet.
NoFollowUpRun ==
    [selected |-> <<>>, attempts |-> <<>>, outcome |-> "none", table |-> <<>>,
     earlier |-> [run |-> FALSE, selected |-> <<>>]]

\* Midnight passes (the jobs, started at 07:00 and 08:00, are not running
\* then).  The records of the day's mail and of the day's runs start empty
\* again.
Tick ==
    /\ events < MaxEvents
    /\ events' = events + 1
    /\ pc = "idle"
    /\ fu_pc = "idle"
    /\ followup_run' = NoFollowUpRun
    /\ UNCHANGED <<appointments, fu_pc, followups, appt, rateVars, webVars>>
    /\ today' = today + 1
    /\ mailbox' = <<>>
    /\ last_run' = NoRun
    /\ windows_dirty' = FALSE
    /\ UNCHANGED <<prescriptions, medication_reminders, notifications, pc,
                   job_today, patients_data, reminder_ids, cursor>>

\* ------------------------------------------- send_daily_medication_reminders
\* The WHERE clause without `mr.end_date >= ?`.
IsDueForever(r, t) ==
    /\ r.is_active = 1
    /\ TextLeq(r.start_date, t)
    /\ (r.last_sent_date = NULL \/ TextLess(r.last_sent_date, t))

\* The WHERE clause of the job's SELECT, on reminder row r for the text t of
\* today.
IsDue(r, t) ==
    /\ r.is_active = 1
    /\ TextLeq(r.start_date, t)
    /\ TextLeq(t, r.end_date)
    /\ (r.last_sent_date = NULL \/ TextLess(r.last_sent_date, t))

DueIds(t) ==
    {i \in DOMAIN medication_reminders : IsDue(medication_reminders[i], t)}

\* ORDER BY mr.patient_id, p.created_at DESC
NewestPrescriptionFirst(i, j) ==
    LET a == medication_reminders[i]
        b == medication_reminders[j]
    IN \/ a.patient_id < b.patient_id
       \/ a.patient_id = b.patient_id /\ a.prescription_id > b.prescription_id

\* ORDER BY mr.patient_id, p.created_at
RowBefore(i, j) ==
    LET a == medication_reminders[i]
        b == medication_reminders[j]
    IN \/ a.patient_id < b.patient_id
       \/ a.patient_id = b.patient_id /\ a.prescription_id < b.prescription_id

RECURSIVE Ordered(_)
Ordered(ids) ==
    IF ids = {} THEN <<>>
    ELSE LET first == CHOOSE i \in ids : \A j \in ids \ {i} : RowBefore(i, j)
         IN <<first>> \o Ordered(ids \ {first})

\* The rows the SELECT returns, in order (by reminder id).
SelectReminders(t) == Ordered(DueIds(t))

\* json.loads(reminder['medicines_json']) of reminder row i.
MedicinesOf(i) ==
    prescriptions[medication_reminders[i].prescription_id].medicines_json

\* Grouped with `medicines = ...` written for `medicines.extend(...)`.
RECURSIVE GroupedOverwriting(_, _)
GroupedOverwriting(rows, data) ==
    IF rows = <<>> THEN data
    ELSE LET i == Head(rows)
             patient_id == medication_reminders[i].patient_id
             known == \E k \in 1..Len(data) : data[k].patient_id = patient_id
             seeded == IF known THEN data
                       ELSE Append(data, [patient_id |-> patient_id,
                                          medicines |-> <<>>])
             added == [k \in 1..Len(seeded) |->
                          IF seeded[k].patient_id = patient_id
                          THEN [seeded[k] EXCEPT !.medicines = MedicinesOf(i)]
                          ELSE seeded[k]]
         IN GroupedOverwriting(Tail(rows), added)

\* The grouping loop: patients_data after the rows of `rows` were added to
\* `data`.
RECURSIVE Grouped(_, _)
Grouped(rows, data) ==
    IF rows = <<>> THEN data
    ELSE LET i == Head(rows)
             patient_id == medication_reminders[i].patient_id
             known == \E k \in 1..Len(data) : data[k].patient_id = patient_id
             seeded == IF known THEN data
                       ELSE Append(data, [patient_id |-> patient_id,
                                          medicines |-> <<>>])
             added == [k \in 1..Len(seeded) |->
                          IF seeded[k].patient_id = patient_id
                          THEN [seeded[k] EXCEPT
                                   !.medicines = @ \o MedicinesOf(i)]
                          ELSE seeded[k]]
         IN Grouped(Tail(rows), added)

\* The set of the elements of a sequence.
Range(seq) == {seq[k] : k \in 1..Len(seq)}

\* Whether a run that starts now repeats the latest run: on the same day,
\* after a run without a failed send and with no window written since that
\* run began.  "committed": that run's UPDATE committed (or it had nothing to
\* update); "uncommitted": its UPDATE failed.
Repeats ==
    IF /\ last_run.outcome \in {"empty", "updated", "update_failed"}
       /\ last_run.day = today
       /\ \A k \in 1..Len(last_run.attempts) : last_run.attempts[k].accepted
       /\ ~windows_dirty
    THEN (IF last_run.outcome = "update_failed" THEN "uncommitted" ELSE "committed")
    ELSE "no"

\* The job starts: it reads the day, runs the SELECT and, when rows came
\* back, groups them by patient.
MedJobStart ==
    LET reminders == SelectReminders(strftime(today))
    IN /\ pc = "idle"
       /\ events < MaxEvents
       /\ events' = events + 1
       /\ last_run' = [day |-> today, selected |-> Range(reminders),
                       attempts |-> <<>>,
                       outcome |-> IF reminders = <<>> THEN "empty" ELSE "running",
                       mail_before |-> Len(mailbox), repeats |-> Repeats]
       /\ windows_dirty' = FALSE
       /\ IF reminders = <<>>
          THEN UNCHANGED <<pc, job_today, patients_data, reminder_ids, cursor>>
          ELSE /\ pc' = "send"
               /\ job_today' = today
               /\ patients_data' = Grouped(reminders, <<>>)
               /\ reminder_ids' = reminders
               /\ cursor' = 0
       /\ UNCHANGED <<today, prescriptions, medication_reminders,
                      notifications, mailbox>>
       /\ UNCHANGED <<fuVars, rateVars, webVars>>

\* Whether `part` occurs in `list` as a run of consecutive elements.
Contains(list, part) ==
    \E off \in 0..(Len(list) - Len(part)) :
        SubSeq(list, off + 1, off + Len(part)) = part

\* ----------------------------------------------------- send_medication_email
UpperCase ==
    <<"A", "B", "C", "D", "E", "F", "G", "H", "I", "J", "K", "L", "M",
      "N", "O", "P", "Q", "R", "S", "T", "U", "V", "W", "X", "Y", "Z">>

LowerCase ==
    <<"a", "b", "c", "d", "e", "f", "g", "h", "i", "j", "k", "l", "m",
      "n", "o", "p", "q", "r", "s", "t", "u", "v", "w", "x", "y", "z">>

LowerChar(c) ==
    IF \E i \in 1..26 : UpperCase[i] = c
    THEN LowerCase[CHOOSE i \in 1..26 : UpperCase[i] = c]
    ELSE c

\* A text left as it is.
NotLowered(text) == text

\* str.lower()
Lower(text) == [k \in 1..Len(text) |-> LowerChar(text[k])]

\* The characters of a symbol that stands for several: the period names
\* write_prescription appends and the separator it joins them with.
Letters(symbol) ==
    CASE symbol = "Morning" -> <<"M", "o", "r", "n", "i", "n", "g">>
      [] symbol = "Afternoon" -> <<"A", "f", "t", "e", "r", "n", "o", "o", "n">>
      [] symbol = "Evening" -> <<"E", "v", "e", "n", "i", "n", "g">>
      [] symbol = "Night" -> <<"N", "i", "g", "h", "t">>
      [] symbol = ", " -> <<",", " ">>
      [] OTHER -> <<symbol>>

\* A text character by character.
RECURSIVE Spelled(_)
Spelled(text) ==
    IF text = <<>> THEN <<>> ELSE Letters(Head(text)) \o Spelled(Tail(text))

\* The lists send_medication_email fills, in the order of the email.
BucketNames == <<"Morning", "Afternoon", "Evening", "Night", "Anytime">>

\* The literals 'morning', 'afternoon', 'evening' and 'night'.
PeriodLiteral(bucket) ==
    CASE bucket = "Morning" -> <<"m", "o", "r", "n", "i", "n", "g">>
      [] bucket = "Afternoon" -> <<"a", "f", "t", "e", "r", "n", "o", "o", "n">>
      [] bucket = "Evening" -> <<"e", "v", "e", "n", "i", "n", "g">>
      [] bucket = "Night" -> <<"n", "i", "g", "h", "t">>

\* timing = med.get('timing', '').lower()
TimingLowered(med) == Lower(Spelled(med.timing))

\* The test that appends med_info to the list of `bucket`:
\* `'morning' in timing` and its like, and `not timing or timing == '-'`.
GoesTo(med, bucket) ==
    IF bucket = "Anytime"
    THEN TimingLowered(med) = <<>> \/ TimingLowered(med) = <<"-">>
    ELSE Contains(TimingLowered(med), PeriodLiteral(bucket))

\* med_info (its 'food' is not modelled).
MedInfo(med) == [name |-> med.name, dosage |-> med.dosage]

\* One of the five lists after the loop over all_medicines.
BucketOf(all_medicines, bucket) ==
    LET chosen == SelectSeq(all_medicines, LAMBDA med : GoesTo(med, bucket))
    IN [k \in 1..Len(chosen) |-> MedInfo(chosen[k])]

\* The five lists the email is built from.
Buckets(all_medicines) ==
    [Morning |-> BucketOf(all_medicines, "Morning"),
     Afternoon |-> BucketOf(all_medicines, "Afternoon"),
     Evening |-> BucketOf(all_medicines, "Evening"),
     Night |-> BucketOf(all_medicines, "Night"),
     Anytime |-> BucketOf(all_medicines, "Anytime")]

\* Where the job stands once its send loop has handled `handled` patients.
AfterSend(handled) == IF handled = Len(patients_data) THEN "update" ELSE "send"

\* Caught with the raise leaving the loop: none of the n units is left.
Uncaught(handled, n) == n

\* `except Exception as e: print(...)` in a send loop of n units that has
\* handled `handled` of them: the raise of the unit in hand is logged and the
\* loop goes on after that unit.
Caught(handled, n) == handled + 1

\* The call send_medication_email(..., all_medicines=data['medicines']) noted
\* in the run's record, with whether mail.send accepted the message.
NoteAttempt(data, accepted) ==
    [last_run EXCEPT !.attempts =
        Append(@, [patient_id |-> data.patient_id,
                   all_medicines |-> data.medicines, accepted |-> accepted])]

\* One pass of the send loop in which mail.send accepts the message (or the
\* patient has no medicines and nothing is sent).
MedJobSendOk ==
    /\ pc = "send"
    /\ LET data == patients_data[cursor + 1]
       IN IF data.medicines # <<>>
          THEN /\ mailbox' = Append(mailbox,
                      [patient_id |-> data.patient_id,
                       all_medicines |-> data.medicines,
                       buckets |-> Buckets(data.medicines),
                       windows |-> {i \in Range(reminder_ids) :
                           medication_reminders[i].patient_id = data.patient_id}])
               /\ last_run' = NoteAttempt(data, TRUE)
          ELSE UNCHANGED <<mailbox, last_run>>
    /\ cursor' = cursor + 1
    /\ pc' = AfterSend(cursor + 1)
    /\ UNCHANGED <<today, prescriptions, medication_reminders, notifications,
                   job_today, patients_data, reminder_ids, events,
                   windows_dirty>>
    /\ UNCHANGED <<fuVars, rateVars, webVars>>

\* One pass of the send loop in which send_medication_email raises: the
\* except clause logs it and the loop goes on.
MedJobSendFail ==
    /\ pc = "send"
    /\ patients_data[cursor + 1].medicines # <<>>
    /\ last_run' = NoteAttempt(patients_data[cursor + 1], FALSE)
    /\ cursor' = Caught(cursor, Len(patients_data))
    /\ pc' = AfterSend(Caught(cursor, Len(patients_data)))
    /\ UNCHANGED <<today, prescriptions, medication_reminders, notifications,
                   job_today, patients_data, reminder_ids, mailbox, events,
                   windows_dirty>>
    /\ UNCHANGED <<fuVars, rateVars, webVars>>

\* UpdatedRows as one UPDATE per id, of which only the first commits.
UpdatedRowsFirstOnly(ids, t) ==
    [i \in DOMAIN medication_reminders |->
        IF ids # <<>> /\ i = ids[1]
        THEN [medication_reminders[i] EXCEPT !.last_sent_date = t]
        ELSE medication_reminders[i]]

\* UpdatedRows with the UPDATE left out.
UpdatedRowsNone(ids, t) == medication_reminders

\* UpdatedRows without the WHERE clause: every window is written.
UpdatedRowsEvery(ids, t) ==
    [i \in DOMAIN medication_reminders |->
        [medication_reminders[i] EXCEPT !.last_sent_date = t]]

\* The rows of medication_reminders after
\* UPDATE ... SET last_sent_date = ? WHERE id IN (reminder_ids).
UpdatedRows(ids, t) ==
    [i \in DOMAIN medication_reminders |->
        IF i \in Range(ids)
        THEN [medication_reminders[i] EXCEPT !.last_sent_date = t]
        ELSE medication_reminders[i]]

\* The job's locals are gone once it returns.
JobReturns(outcome) ==
    /\ pc' = "idle"
    /\ job_today' = 0
    /\ patients_data' = <<>>
    /\ reminder_ids' = <<>>
    /\ cursor' = 0
    /\ last_run' = [last_run EXCEPT !.outcome = outcome]

\* The final UPDATE commits.
MedJobUpdate ==
    /\ pc = "update"
    /\ medication_reminders' = UpdatedRows(reminder_ids, strftime(job_today))
    /\ JobReturns("updated")
    /\ UNCHANGED <<today, prescriptions, notifications, mailbox, events,
                   windows_dirty>>
    /\ UNCHANGED <<fuVars, rateVars, webVars>>

\* The final UPDATE raises: execute_query rolls back and re-raises, and the
\* job ends with the exception.
MedJobUpdateFail ==
    /\ pc = "update"
    /\ JobReturns("update_failed")
    /\ UNCHANGED <<today, prescriptions, medication_reminders, notifications,
                   mailbox, events, windows_dirty>>
    /\ UNCHANGED <<fuVars, rateVars, webVars>>

\* ----------------------------------------------------------- specification
A == <<"A">>
B == <<"B">>
Dose == <<"x">>

\* The forms the doctor submits in Spec: medicine A for one day and medicine
\* B for two days.
JobForms ==
    { Form(<<A>>, <<Dose>>, <<(<<"1">>)>>, <<"on">>, <<>>, <<>>, <<>>),
      Form(<<B>>, <<Dose>>, <<(<<"2">>)>>, <<>>, <<>>, <<>>, <<"on">>) }

Init ==
    /\ today = FirstDay
    /\ prescriptions = <<>>
    /\ medication_reminders = <<>>
    /\ notifications = <<>>
    /\ pc = "idle"
    /\ job_today = 0
    /\ patients_data = <<>>
    /\ reminder_ids = <<>>
    /\ cursor = 0
    /\ mailbox = <<>>
    /\ last_run = NoRun
    /\ events = 0
    /\ windows_dirty = FALSE
    /\ appointments = <<>>
    /\ fu_pc = "idle"
    /\ followups = <<>>
    /\ appt = 0
    /\ followup_run = NoFollowUpRun
    /\ doctor_ratings = <<>>
    /\ doctor_details = [d \in Doctors |-> NoRatings]
    /\ rate_doctor = [w \in Workers |-> NoRequest]
    /\ fetched = NoFetch

Next ==
    \/ \E p \in Patients, f \in JobForms : WritePrescription(p, f)
    \/ \E i \in 1..(Len(prescriptions) + 1) : DeactivateMedicationReminder(i)
    \/ Tick
    \/ MedJobStart
    \/ MedJobSendOk
    \/ MedJobSendFail
    \/ MedJobUpdate
    \/ MedJobUpdateFail

Spec == Init /\ [][Next]_vars

\* ------------------------------------------------ claims about the daily job
PatientOf(i) == medication_reminders[i].patient_id

\* The latest run went through its send loop and ended.
RunEnded == last_run.outcome \in {"updated", "update_failed"}

\* The patients whose send failed in the latest run.
FailedPatients ==
    {last_run.attempts[k].patient_id :
        k \in {n \in 1..Len(last_run.attempts) : ~last_run.attempts[n].accepted}}

\* The windows of the latest run's SELECT that belong to patient p.
SelectedOf(p) == {i \in last_run.selected : PatientOf(i) = p}

\* The date-based reading of "open on day d and unsent".
OpenAndUnsent(r, d) ==
    /\ r.is_active = 1
    /\ DateOf(r.start_date) <= d
    /\ d <= DateOf(r.end_date)
    /\ (r.last_sent_date = NULL \/ DateOf(r.last_sent_date) < d)

\* C1: on one calendar day each patient is sent at most one medication
\* reminder email, over any sequence of job runs and prescription writes.
C1_OneMailPerPatientPerDay ==
    \A p \in Patients :
        Cardinality({k \in DOMAIN mailbox : mailbox[k].patient_id = p}) <= 1

\* C2: after a run of the job, every window that was open and unsent when
\* the run began has last_sent_date = today and its medicines are in exactly
\* one email sent to its patient that day.
C2_EveryDueWindowDispatchedOnce ==
    last_run.outcome = "updated" =>
        \A i \in last_run.selected :
            /\ medication_reminders[i].last_sent_date = strftime(last_run.day)
            /\ Cardinality({k \in DOMAIN mailbox :
                   /\ mailbox[k].patient_id = PatientOf(i)
                   /\ i \in mailbox[k].windows
                   /\ Contains(mailbox[k].all_medicines, MedicinesOf(i))}) = 1

\* C3: when a patient's send fails in a run, last_sent_date is not advanced
\* for any of that patient's contributing windows.
C3_FailedSendKeepsWindowsUnsent ==
    RunEnded =>
        \A i \in last_run.selected :
            PatientOf(i) \in FailedPatients =>
                \/ medication_reminders[i].last_sent_date = NULL
                \/ DateOf(medication_reminders[i].last_sent_date) < last_run.day

C5_SelectsExactlyDueWindows ==
    [][MedJobStart =>
          last_run'.selected =
              {i \in DOMAIN medication_reminders :
                  OpenAndUnsent(medication_reminders[i], today)}]_vars

\* A run selected a window while another window, past its end date, was
\* left out.
C5_Witness ==
    /\ pc = "send"
    /\ last_run.selected # {}
    /\ \E i \in DOMAIN medication_reminders :
           /\ i \notin last_run.selected
           /\ medication_reminders[i].is_active = 1
           /\ DateOf(medication_reminders[i].end_date) < job_today

\* C7: a patient with several windows selected by a run gets one send in
\* that run, whose medicine list holds the medicines of each of them; when
\* the send is accepted, one email of the run carries that list.
C7_WindowsMergedIntoOneEmail ==
    (pc = "update" \/ RunEnded) =>
        \A p \in Patients :
            SelectedOf(p) # {} =>
                LET mine == {k \in 1..Len(last_run.attempts) :
                                last_run.attempts[k].patient_id = p}
                    mail == {k \in (last_run.mail_before + 1)..Len(mailbox) :
                                mailbox[k].patient_id = p}
                IN /\ Cardinality(mine) = 1
                   /\ \A k \in mine :
                        /\ \A i \in SelectedOf(p) :
                              Contains(last_run.attempts[k].all_medicines,
                                       MedicinesOf(i))
                        /\ IF last_run.attempts[k].accepted
                           THEN /\ Cardinality(mail) = 1
                                /\ \A m \in mail :
                                     mailbox[m].all_medicines =
                                         last_run.attempts[k].all_medicines
                           ELSE mail = {}

\* A patient had a window with medicine A and a window with medicine B
\* selected by one run and was sent one email naming both.
C7_Witness ==
    /\ RunEnded
    /\ \E p \in Patients : \E i, j \in SelectedOf(p) :
           /\ \E n \in 1..Len(MedicinesOf(i)) : MedicinesOf(i)[n].name = A
           /\ \E n \in 1..Len(MedicinesOf(j)) : MedicinesOf(j)[n].name = B
           /\ \E m \in (last_run.mail_before + 1)..Len(mailbox) :
                  /\ mailbox[m].patient_id = p
                  /\ Len(mailbox[m].all_medicines) = 2

\* C8: the windows that contributed to one patient's batch in a run have
\* either all had last_sent_date set to the run's day or none of them has.
C8_BatchAdvancesTogether ==
    \A p \in Patients :
        \/ \A i \in SelectedOf(p) :
               medication_reminders[i].last_sent_date = strftime(last_run.day)
        \/ \A i \in SelectedOf(p) :
               medication_reminders[i].last_sent_date # strftime(last_run.day)

\* A run in which a patient's send failed ended with both of that patient's
\* contributing windows advanced.
C8_Witness ==
    /\ last_run.outcome = "updated"
    /\ \E p \in FailedPatients :
           /\ Cardinality(SelectedOf(p)) = 2
           /\ \A i \in SelectedOf(p) :
                  medication_reminders[i].last_sent_date = strftime(last_run.day)


\* ------------------------------------------- prescriptions and their windows
\* The duration fields the doctor submits in SpecRx, one list per form: no
\* row, one row, two rows; whole numbers, zero, a word, a negative number, a
\* blank field and the superscript two.
RxDurations ==
    { <<>>,
      <<(<<"2">>)>>,
      <<(<<"0">>)>>,
      <<(<<"x">>)>>,
      <<(<<"-", "1">>)>>,
      <<(<<Space>>)>>,
      <<(<<"1">>), (<<Space, "2", Space>>)>>,
      <<(<<"2">>), (<<"SUP2">>)>> }

\* A form with one medicine per duration field, named A, B in row order.
RxForm(durations) ==
    Form(SubSeq(<<A, B>>, 1, Len(durations)),
         [i \in 1..Len(durations) |-> Dose], durations,
         <<>>, <<>>, <<>>, <<>>)

RxForms == { RxForm(d) : d \in RxDurations }

NextRx ==
    \/ \E f \in RxForms : WritePrescription(1, f)
    \/ Tick

SpecRx == Init /\ [][NextRx]_vars

\* The reminder rows of prescription k.
WindowsOf(k) ==
    {i \in DOMAIN medication_reminders :
        medication_reminders[i].prescription_id = k}

\* The day prescription k was written: its notification row carries it.
WrittenOn(k) ==
    LET n == CHOOSE j \in DOMAIN notifications :
                 /\ notifications[j].type = "PRESCRIPTION_WRITTEN"
                 /\ notifications[j].prescription_id = k
    IN notifications[n].created_at

\* The duration of a stored medicine as a reader takes it: the whole number
\* its duration text starts with, 0 when it starts with none.
StatedDays(med) ==
    LET w == FirstWord(med.duration) IN IF IntParses(w) THEN IntOf(w) ELSE 0

RECURSIVE StatedMax(_)
StatedMax(medicines) ==
    IF medicines = <<>> THEN 0
    ELSE Max(StatedDays(Head(medicines)), StatedMax(Tail(medicines)))

\* C6: every prescription with a medicine of positive duration has exactly
\* one window, starting the day it was written and ending that day plus the
\* largest duration of its medicines; every other prescription has none.
C6_WindowIffPositiveDuration ==
    \A k \in DOMAIN prescriptions :
        LET medicines == prescriptions[k].medicines_json
        IN IF StatedMax(medicines) > 0
           THEN /\ Cardinality(WindowsOf(k)) = 1
                /\ \A i \in WindowsOf(k) :
                       /\ medication_reminders[i].start_date
                              = strftime(WrittenOn(k))
                       /\ medication_reminders[i].end_date
                              = strftime(WrittenOn(k) + StatedMax(medicines))
           ELSE WindowsOf(k) = {}


\* ------------------------------------------------------ follow-up reminders
\* An appointments row, as far as the jobs and the rating requests read it.
\* A row without a parent appointment carries 0 there, which is no row's id.
AppointmentRow(patient_id, doctor_id, status, follow_up_required, follow_up_date) ==
    [patient_id |-> patient_id, doctor_id |-> doctor_id, status |-> status,
     follow_up_required |-> follow_up_required,
     follow_up_date |-> follow_up_date, parent_appointment_id |-> 0]

\* create_notification from mark_follow_up_required: the row it inserts.
FollowUpNotification(patient_id, appointment_id, day) ==
    [user_id |-> patient_id, type |-> "FOLLOW_UP_REQUIRED", is_read |-> 0,
     appointment_id |-> appointment_id, created_at |-> day]

\* POST /schedule-follow-up with appointment_id and follow_up_date = the text
\* of day d.  An unknown appointment_id ends the request with a flash message.
ScheduleFollowUp(appointment_id, d) ==
    /\ events < MaxEvents
    /\ events' = events + 1
    /\ appointment_id \in DOMAIN appointments
    /\ appointments' =
           [appointments EXCEPT ![appointment_id].follow_up_required = 1,
                                ![appointment_id].follow_up_date = strftime(d)]
    /\ notifications' =
           Append(notifications,
                  FollowUpNotification(appointments[appointment_id].patient_id,
                                       appointment_id, today))
    /\ UNCHANGED <<today, prescriptions, medication_reminders, pc, job_today,
                   patients_data, reminder_ids, cursor, mailbox, last_run,
                   windows_dirty>>
    /\ UNCHANGED <<fu_pc, followups, appt, followup_run, rateVars, webVars>>

\* FollowUpDue with the date matched as a window that stays open: the
\* follow-up date is today or earlier.
FollowUpDueOrOverdue(a, t) ==
    /\ a.follow_up_date # NULL
    /\ TextLeq(a.follow_up_date, t)
    /\ a.follow_up_required = 1
    /\ a.status = "COMPLETED"

\* FollowUpDue with a marker of the day's run: nothing is due once a run of
\* the day is over.
FollowUpDueOnce(a, t) ==
    /\ followup_run.outcome # "done"
    /\ a.follow_up_date = t
    /\ a.follow_up_required = 1
    /\ a.status = "COMPLETED"

\* FollowUpDue without the test of follow_up_required.
FollowUpDueFlagless(a, t) ==
    /\ a.follow_up_date = t
    /\ a.status = "COMPLETED"

\* The WHERE clause of the follow-up job's SELECT, on appointments row a for
\* the text t of today.
FollowUpDue(a, t) ==
    /\ a.follow_up_date = t
    /\ a.follow_up_required = 1
    /\ a.status = "COMPLETED"

\* SelectFollowUps with the rows merged by patient: one row per patient, the
\* first that is due.
SelectFollowUpsMerged(t) ==
    SelectSeq([i \in 1..Len(appointments) |-> i],
              LAMBDA i :
                  /\ FollowUpDue(appointments[i], t)
                  /\ \A j \in 1..(i - 1) :
                         ~(/\ FollowUpDue(appointments[j], t)
                           /\ appointments[j].patient_id
                                  = appointments[i].patient_id))

\* The ids the SELECT returns, in table order.
SelectFollowUps(t) ==
    SelectSeq([i \in 1..Len(appointments) |-> i],
              LAMBDA i : FollowUpDue(appointments[i], t))

\* What a run that starts now follows: the rows the latest run of the day
\* selected, when that run is over and the appointments table is as that run
\* found it.
EarlierRun ==
    IF followup_run.outcome \in {"empty", "done"}
       /\ followup_run.table = appointments
    THEN [run |-> TRUE, selected |-> followup_run.selected]
    ELSE [run |-> FALSE, selected |-> <<>>]

\* The follow-up job starts: it reads the day and runs the SELECT; without
\* rows it returns.
FollowUpJobStart ==
    LET rows == SelectFollowUps(strftime(today))
    IN /\ fu_pc = "idle"
       /\ events < MaxEvents
       /\ events' = events + 1
       /\ followup_run' =
              [selected |-> rows, attempts |-> <<>>,
               outcome |-> IF rows = <<>> THEN "empty" ELSE "running",
               table |-> appointments, earlier |-> EarlierRun]
       /\ IF rows = <<>>
          THEN UNCHANGED <<fu_pc, followups, appt>>
          ELSE /\ fu_pc' = "send"
               /\ followups' = rows
               /\ appt' = 0
       /\ UNCHANGED <<today, prescriptions, medication_reminders,
                      notifications, pc, job_today, patients_data,
                      reminder_ids, cursor, mailbox, last_run, windows_dirty,
                      appointments, rateVars, webVars>>

\* One pass of the follow-up send loop: the call send_followup_email for the
\* appointment in hand is noted with whether mail.send accepted the message,
\* and the loop stands at `handled`; past the last row the job returns.
FollowUpPass(accepted, handled) ==
    LET noted == [followup_run EXCEPT !.attempts =
                     Append(@, [appointment_id |-> followups[appt + 1],
                                accepted |-> accepted])]
    IN /\ fu_pc = "send"
       /\ IF handled = Len(followups)
          THEN /\ fu_pc' = "idle"
               /\ followups' = <<>>
               /\ appt' = 0
               /\ followup_run' = [noted EXCEPT !.outcome = "done"]
          ELSE /\ appt' = handled
               /\ followup_run' = noted
               /\ UNCHANGED <<fu_pc, followups>>
       /\ UNCHANGED <<medVars, appointments, rateVars, webVars>>

\* mail.send accepts the message.
FollowUpSendOk == FollowUpPass(TRUE, appt + 1)

\* send_followup_email raises: the except clause logs it.
FollowUpSendFail == FollowUpPass(FALSE, Caught(appt, Len(followups)))

\* The appointments table when the behaviours of SpecJobs start: a completed
\* visit of each patient, each with no follow-up or with one scheduled for
\* the first day.
FollowUpChoices == { <<0, NULL>>, <<1, strftime(FirstDay)>> }

JobAppointments ==
    { <<AppointmentRow(1, 3, "COMPLETED", f1[1], f1[2]),
        AppointmentRow(2, 3, "COMPLETED", f2[1], f2[2])>> :
        f1 \in FollowUpChoices, f2 \in FollowUpChoices }

InitJobs ==
    /\ today = FirstDay
    /\ prescriptions = <<>>
    /\ medication_reminders = <<>>
    /\ notifications = <<>>
    /\ pc = "idle"
    /\ job_today = 0
    /\ patients_data = <<>>
    /\ reminder_ids = <<>>
    /\ cursor = 0
    /\ mailbox = <<>>
    /\ last_run = NoRun
    /\ events = 0
    /\ windows_dirty = FALSE
    /\ appointments \in JobAppointments
    /\ fu_pc = "idle"
    /\ followups = <<>>
    /\ appt = 0
    /\ followup_run = NoFollowUpRun
    /\ doctor_ratings = <<>>
    /\ doctor_details = [d \in Doctors |-> NoRatings]
    /\ rate_doctor = [w \in Workers |-> NoRequest]
    /\ fetched = NoFetch

\* The forms of SpecJobs: medicine A for one day.
OneDayForms == { Form(<<A>>, <<Dose>>, <<(<<"1">>)>>, <<"on">>, <<>>, <<>>, <<>>) }

NextJobs ==
    \/ \E p \in Patients, f \in OneDayForms : WritePrescription(p, f)
    \/ \E i \in 1..3, d \in {today, today + 1} : ScheduleFollowUp(i, d)
    \/ MedJobStart
    \/ MedJobSendOk
    \/ MedJobSendFail
    \/ MedJobUpdate
    \/ FollowUpJobStart
    \/ FollowUpSendOk
    \/ FollowUpSendFail

SpecJobs == InitJobs /\ [][NextJobs]_vars


\* The patients the latest medication run selected windows of.
SelectedPatients == {PatientOf(i) : i \in last_run.selected}

\* The units the send loops have called the send for, in order.
AttemptedPatients ==
    [k \in 1..Len(last_run.attempts) |-> last_run.attempts[k].patient_id]

AttemptedAppointments ==
    [k \in 1..Len(followup_run.attempts) |->
        followup_run.attempts[k].appointment_id]

\* C9: in both daily jobs a send that fails for one unit is caught and the
\* loop goes on: once the send loop of a run is over, the send was attempted
\* once for every patient (medication job) and every appointment (follow-up
\* job) the run selected, whichever of the sends failed.
C9_FailedSendDoesNotStopLoop ==
    /\ (pc = "update" \/ RunEnded) =>
           /\ Range(AttemptedPatients) = SelectedPatients
           /\ Len(AttemptedPatients) = Cardinality(SelectedPatients)
    /\ followup_run.outcome = "done" =>
           AttemptedAppointments = followup_run.selected

\* Both jobs have run over two units each, the send failed for the first
\* unit and was still called for the second.
C9_Witness ==
    /\ RunEnded
    /\ Len(last_run.attempts) = 2
    /\ ~last_run.attempts[1].accepted
    /\ followup_run.outcome = "done"
    /\ Len(followup_run.attempts) = 2
    /\ ~followup_run.attempts[1].accepted


\* ------------------------------------------------------------------ ratings
RECURSIVE Gcd(_, _)
Gcd(a, b) == IF b = 0 THEN a ELSE Gcd(b, a % b)

\* The number n/d as a fraction in lowest terms.
Fraction(n, d) == <<n \div Gcd(n, d), d \div Gcd(n, d)>>

\* The ids of the doctor_ratings rows WHERE doctor_id = ?.
RatingsOf(rows, doctor_id) ==
    {i \in DOMAIN rows : rows[i].doctor_id = doctor_id}

RECURSIVE SumRatings(_, _)
SumRatings(rows, ids) ==
    IF ids = {} THEN 0
    ELSE LET i == CHOOSE j \in ids : TRUE
         IN rows[i].rating + SumRatings(rows, ids \ {i})

\* SELECT AVG(rating) as avg_rating, COUNT(*) as total_ratings: AVG over no
\* rows is NULL.
AvgCount(rows, doctor_id) ==
    LET ids == RatingsOf(rows, doctor_id)
    IN [avg_rating |-> IF ids = {} THEN NULL
                       ELSE Fraction(SumRatings(rows, ids), Cardinality(ids)),
        total_ratings |-> Cardinality(ids)]

\* The values update_doctor_average_rating writes for a SELECT result:
\* `x if x else 0.0` and `x if x else 0`.
Recomputed(result) ==
    [average_rating |-> IF result.avg_rating = NULL THEN <<0, 1>>
                        ELSE result.avg_rating,
     total_ratings |-> result.total_ratings]

\* check_existing_rating(patient_id, appointment_id) finds a row.
ExistingRating(patient_id, appointment_id) ==
    \E i \in DOMAIN doctor_ratings :
        /\ doctor_ratings[i].patient_id = patient_id
        /\ doctor_ratings[i].appointment_id = appointment_id

\* POST /rate-doctor/<appointment_id> by patient_id, up to the call of
\* create_rating: the rating is validated, the pair is checked for an
\* existing rating and the appointment is looked up.  Every rejection ends
\* the request with a flash message.
RateDoctorPost(w, patient_id, appointment_id, rating) ==
    /\ events < MaxEvents
    /\ events' = events + 1
    /\ rate_doctor[w].pc = "idle"
    /\ rate_doctor' =
           [rate_doctor EXCEPT ![w] =
               IF rating < 1 \/ rating > 5
               THEN Flashed("Rating must be between 1 and 5.")
               ELSE IF ExistingRating(patient_id, appointment_id)
               THEN Flashed("You have already rated this appointment.")
               ELSE IF ~(/\ appointment_id \in DOMAIN appointments
                         /\ appointments[appointment_id].patient_id = patient_id)
               THEN Flashed("Appointment not found.")
               ELSE IF appointments[appointment_id].status
                          \notin {"COMPLETED", "REJECTED"}
               THEN Flashed("You can only rate completed or rejected appointments.")
               ELSE [pc |-> "insert",
                     doctor_id |-> appointments[appointment_id].doctor_id,
                     patient_id |-> patient_id,
                     appointment_id |-> appointment_id,
                     rating |-> rating, result |-> <<>>, flash |-> ""]]
    /\ UNCHANGED <<today, prescriptions, medication_reminders, notifications,
                   pc, job_today, patients_data, reminder_ids, cursor,
                   mailbox, last_run, windows_dirty>>
    /\ UNCHANGED <<fuVars, doctor_ratings, doctor_details, webVars>>

\* ViolatesUnique for a table without the UNIQUE constraint.
NoConstraint(patient_id, appointment_id) == FALSE

\* UNIQUE(patient_id, appointment_id) of doctor_ratings: a row with this
\* pair is stored already.
ViolatesUnique(patient_id, appointment_id) ==
    \E i \in DOMAIN doctor_ratings :
        /\ doctor_ratings[i].patient_id = patient_id
        /\ doctor_ratings[i].appointment_id = appointment_id

\* create_rating, the INSERT and its commit.  UNIQUE(patient_id,
\* appointment_id) makes the INSERT of a second row for the pair raise;
\* execute_query rolls back and re-raises, and rate_doctor's except clause
\* ends the request.
CreateRatingInsert(w) ==
    LET r == rate_doctor[w]
    IN /\ r.pc = "insert"
       /\ IF ViolatesUnique(r.patient_id, r.appointment_id)
          THEN /\ rate_doctor' =
                      [rate_doctor EXCEPT
                          ![w] = Flashed("Error submitting rating")]
               /\ UNCHANGED doctor_ratings
          ELSE /\ doctor_ratings' =
                      Append(doctor_ratings,
                             [doctor_id |-> r.doctor_id,
                              patient_id |-> r.patient_id,
                              appointment_id |-> r.appointment_id,
                              rating |-> r.rating])
               /\ rate_doctor' = [rate_doctor EXCEPT ![w].pc = "select"]
       /\ UNCHANGED <<medVars, fuVars, doctor_details, webVars>>

\* update_doctor_average_rating, the SELECT.
UpdateAverageSelect(w) ==
    /\ rate_doctor[w].pc = "select"
    /\ rate_doctor' =
           [rate_doctor EXCEPT
               ![w].pc = "update",
               ![w].result = AvgCount(doctor_ratings, rate_doctor[w].doctor_id)]
    /\ UNCHANGED <<medVars, fuVars, doctor_ratings, doctor_details, webVars>>

\* update_doctor_average_rating, the UPDATE and its commit; the request ends.
UpdateAverageWrite(w) ==
    /\ rate_doctor[w].pc = "update"
    /\ doctor_details' =
           [doctor_details EXCEPT
               ![rate_doctor[w].doctor_id] = Recomputed(rate_doctor[w].result)]
    /\ rate_doctor' =
           [rate_doctor EXCEPT ![w] = Flashed("Thank you for your feedback!")]
    /\ UNCHANGED <<medVars, fuVars, doctor_ratings, webVars>>

\* The appointments table when the behaviours of SpecRating start: two
\* visits to doctor 3 that can be rated, one to doctor 4, and one that is
\* still pending.
RatingAppointments ==
    << AppointmentRow(1, 3, "COMPLETED", 0, NULL),
       AppointmentRow(2, 3, "REJECTED", 0, NULL),
       AppointmentRow(2, 4, "COMPLETED", 0, NULL),
       AppointmentRow(1, 4, "PENDING", 0, NULL) >>

\* The ratings the patients submit in SpecRating.
Ratings == {3, 5}

InitRating ==
    /\ today = FirstDay
    /\ prescriptions = <<>>
    /\ medication_reminders = <<>>
    /\ notifications = <<>>
    /\ pc = "idle"
    /\ job_today = 0
    /\ patients_data = <<>>
    /\ reminder_ids = <<>>
    /\ cursor = 0
    /\ mailbox = <<>>
    /\ last_run = NoRun
    /\ events = 0
    /\ windows_dirty = FALSE
    /\ appointments = RatingAppointments
    /\ fu_pc = "idle"
    /\ followups = <<>>
    /\ appt = 0
    /\ followup_run = NoFollowUpRun
    /\ doctor_ratings = <<>>
    /\ doctor_details = [d \in Doctors |-> NoRatings]
    /\ rate_doctor = [w \in Workers |-> NoRequest]
    /\ fetched = NoFetch

NextRating ==
    \/ \E w \in Workers, p \in Patients, a \in DOMAIN appointments,
          r \in Ratings : RateDoctorPost(w, p, a, r)
    \/ \E w \in Workers : CreateRatingInsert(w)
    \/ \E w \in Workers : UpdateAverageSelect(w)
    \/ \E w \in Workers : UpdateAverageWrite(w)

SpecRating == InitRating /\ [][NextRating]_vars

\* C10: whenever no create_rating call is in progress, every doctor's stored
\* average_rating and total_ratings are the average and the count of the
\* doctor's rows in doctor_ratings.
C10_AggregateMatchesRatings ==
    (\A w \in Workers : rate_doctor[w].pc = "idle") =>
        \A d \in Doctors :
            doctor_details[d] = Recomputed(AvgCount(doctor_ratings, d))


\* C11: no read sees the new rating row next to the aggregate from before
\* the insert: the step that makes a row of doctor_ratings visible also
\* makes the new average_rating / total_ratings of its doctor visible.
C11_RowAndAggregateAppearTogether ==
    [][Len(doctor_ratings') > Len(doctor_ratings) =>
          LET d == doctor_ratings'[Len(doctor_ratings')].doctor_id
          IN doctor_details'[d] # doctor_details[d]]_vars


\* The pair (patient_id, appointment_id) has a stored rating.
HasRating(patient_id, appointment_id) ==
    \E i \in DOMAIN doctor_ratings :
        /\ doctor_ratings[i].patient_id = patient_id
        /\ doctor_ratings[i].appointment_id = appointment_id

\* C12: a rating submitted for a (patient, appointment) pair that already
\* has a rating is rejected, at the application's check or at the INSERT:
\* the request ends there, no row is inserted, the stored rows are unchanged
\* and so are the doctors' average_rating and total_ratings.
C12_DuplicateRatingRejected ==
    [][/\ \A w \in Workers, p \in Patients, a \in DOMAIN appointments,
             r \in Ratings :
             (RateDoctorPost(w, p, a, r) /\ HasRating(p, a)) =>
                 /\ rate_doctor'[w].pc = "idle"
                 /\ UNCHANGED <<doctor_ratings, doctor_details>>
       /\ \A w \in Workers :
             (/\ CreateRatingInsert(w)
              /\ HasRating(rate_doctor[w].patient_id,
                           rate_doctor[w].appointment_id)) =>
                 /\ rate_doctor'[w].pc = "idle"
                 /\ UNCHANGED <<doctor_ratings, doctor_details>>]_vars

\* One submission was turned away by check_existing_rating and another by
\* the INSERT, and the one rating of the pair is stored.
C12_Witness ==
    /\ \E w \in Workers :
           rate_doctor[w].flash = "You have already rated this appointment."
    /\ \E w \in Workers : rate_doctor[w].flash = "Error submitting rating"
    /\ doctor_ratings # <<>>


\* C13: doctor_ratings never holds two rows for one (patient, appointment)
\* pair, whatever the interleaving of the submissions.
C13_OneRatingPerPair ==
    \A i \in DOMAIN doctor_ratings, j \in DOMAIN doctor_ratings :
        (/\ doctor_ratings[i].patient_id = doctor_ratings[j].patient_id
         /\ doctor_ratings[i].appointment_id = doctor_ratings[j].appointment_id)
            => i = j

\* Two submissions for one pair both passed check_existing_rating; the first
\* INSERT stored its row and the second was refused by the table.
C13_Witness ==
    \E w1 \in Workers, w2 \in Workers :
        /\ rate_doctor[w1].pc = "select"
        /\ HasRating(rate_doctor[w1].patient_id, rate_doctor[w1].appointment_id)
        /\ rate_doctor[w2].flash = "Error submitting rating"


\* ------------------------------------------- follow-ups and their reminders
\* GET /mark-follow-up-complete/<appointment_id>: mark_follow_up_complete.
CompleteFollowUp(appointment_id) ==
    /\ events < MaxEvents
    /\ events' = events + 1
    /\ appointments' =
           [i \in DOMAIN appointments |->
               IF i = appointment_id
               THEN [appointments[i] EXCEPT !.follow_up_required = 0]
               ELSE appointments[i]]
    /\ UNCHANGED <<today, prescriptions, medication_reminders, notifications,
                   pc, job_today, patients_data, reminder_ids, cursor,
                   mailbox, last_run, windows_dirty>>
    /\ UNCHANGED <<fu_pc, followups, appt, followup_run, rateVars, webVars>>

\* create_follow_up_appointment(parent_appointment_id, patient_id, doctor_id,
\* date, time): the row it inserts.
FollowUpAppointmentRow(parent_appointment_id, patient_id, doctor_id) ==
    [AppointmentRow(patient_id, doctor_id, "PENDING", 0, NULL)
        EXCEPT !.parent_appointment_id = parent_appointment_id]

\* create_follow_up_appointment for the patient and the doctor of the parent
\* appointment.
CreateFollowUpAppointment(parent_appointment_id) ==
    /\ events < MaxEvents
    /\ events' = events + 1
    /\ parent_appointment_id \in DOMAIN appointments
    /\ appointments' =
           Append(appointments,
                  FollowUpAppointmentRow(
                      parent_appointment_id,
                      appointments[parent_appointment_id].patient_id,
                      appointments[parent_appointment_id].doctor_id))
    /\ UNCHANGED <<today, prescriptions, medication_reminders, notifications,
                   pc, job_today, patients_data, reminder_ids, cursor,
                   mailbox, last_run, windows_dirty>>
    /\ UNCHANGED <<fu_pc, followups, appt, followup_run, rateVars, webVars>>

\* The appointments table when the behaviours of SpecFollowUp start: two
\* completed visits of patient 1 and a pending one of patient 2, none with a
\* follow-up.
FollowUpAppointments ==
    << AppointmentRow(1, 3, "COMPLETED", 0, NULL),
       AppointmentRow(1, 3, "COMPLETED", 0, NULL),
       AppointmentRow(2, 3, "PENDING", 0, NULL) >>

InitFollowUp ==
    /\ today = FirstDay
    /\ prescriptions = <<>>
    /\ medication_reminders = <<>>
    /\ notifications = <<>>
    /\ pc = "idle"
    /\ job_today = 0
    /\ patients_data = <<>>
    /\ reminder_ids = <<>>
    /\ cursor = 0
    /\ mailbox = <<>>
    /\ last_run = NoRun
    /\ events = 0
    /\ windows_dirty = FALSE
    /\ appointments = FollowUpAppointments
    /\ fu_pc = "idle"
    /\ followups = <<>>
    /\ appt = 0
    /\ followup_run = NoFollowUpRun
    /\ doctor_ratings = <<>>
    /\ doctor_details = [d \in Doctors |-> NoRatings]
    /\ rate_doctor = [w \in Workers |-> NoRequest]
    /\ fetched = NoFetch

\* The appointments a follow-up visit is booked for: those with a follow-up
\* recommended.
Recommended ==
    {i \in DOMAIN appointments : appointments[i].follow_up_required = 1}

NextFollowUp ==
    \/ \E i \in DOMAIN appointments, d \in {today, today + 1} :
          ScheduleFollowUp(i, d)
    \/ \E i \in DOMAIN appointments : CompleteFollowUp(i)
    \/ \E i \in Recommended : CreateFollowUpAppointment(i)
    \/ Tick
    \/ FollowUpJobStart
    \/ FollowUpSendOk
    \/ FollowUpSendFail

SpecFollowUp == InitFollowUp /\ [][NextFollowUp]_vars


\* Appointment row a is completed, has its follow-up flag set and has its
\* follow-up date on day d.
FollowUpOn(a, d) ==
    /\ a.status = "COMPLETED"
    /\ a.follow_up_required = 1
    /\ a.follow_up_date # NULL
    /\ DateOf(a.follow_up_date) = d

\* C14: a run of the follow-up job selects exactly the appointments that are
\* completed, have follow_up_required = 1 and have their follow-up date on
\* the day of the run; a follow-up date on any other day is not selected.
C14_SelectsExactlyTodaysFollowUps ==
    [][FollowUpJobStart =>
          Range(followup_run'.selected)
              = {i \in DOMAIN appointments : FollowUpOn(appointments[i], today)}]_vars

\* A run selected an appointment and left out a flagged, completed one whose
\* follow-up date was yesterday and a pending one whose date is today.
C14_Witness ==
    /\ fu_pc = "send"
    /\ followups # <<>>
    /\ \E i \in DOMAIN appointments :
           /\ FollowUpOn(appointments[i], today - 1)
           /\ i \notin Range(followups)
    /\ \E i \in DOMAIN appointments :
           /\ appointments[i].status = "PENDING"
           /\ appointments[i].follow_up_required = 1
           /\ appointments[i].follow_up_date = strftime(today)
           /\ i \notin Range(followups)


\* The appointments of patient p that were due when the latest run of the
\* follow-up job started.
DueAtStart(p) ==
    {i \in DOMAIN followup_run.table :
        /\ FollowUpOn(followup_run.table[i], today)
        /\ followup_run.table[i].patient_id = p}

\* The sends of the latest run that were made for appointments of patient p.
SendsFor(p) ==
    {k \in DOMAIN followup_run.attempts :
        appointments[followup_run.attempts[k].appointment_id].patient_id = p}

\* C15: a run of the follow-up job calls the send once per selected
\* appointment, in the order selected, and merges none: when the run is over
\* a patient with k due appointments has had k sends, each for another one
\* of the k appointments.
C15_OneSendPerAppointment ==
    /\ AttemptedAppointments
           = SubSeq(followup_run.selected, 1, Len(followup_run.attempts))
    /\ Cardinality(Range(followup_run.selected)) = Len(followup_run.selected)
    /\ followup_run.outcome = "done" =>
           \A p \in Patients :
               /\ Cardinality(SendsFor(p)) = Cardinality(DueAtStart(p))
               /\ {followup_run.attempts[k].appointment_id : k \in SendsFor(p)}
                      = DueAtStart(p)

\* A run is over in which patient 1 had two due appointments and was sent
\* two messages.
C15_Witness ==
    /\ followup_run.outcome = "done"
    /\ Cardinality(DueAtStart(1)) = 2
    /\ Cardinality(SendsFor(1)) = 2
    /\ \A k \in SendsFor(1) : followup_run.attempts[k].accepted


\* The stored tables.
Stored ==
    <<prescriptions, medication_reminders, notifications, appointments,
      doctor_ratings, doctor_details>>

\* C16: the follow-up job keeps no suppression state.  A run that starts
\* after an earlier run of the same day, with the appointments as that run
\* found them, selects the rows that run selected, and when it is over it
\* has called the send for each of them again; no step of the job changes a
\* stored table.
C16_FollowUpJobRefires ==
    [][/\ (FollowUpJobStart \/ FollowUpSendOk \/ FollowUpSendFail) =>
              UNCHANGED Stored
       /\ (FollowUpJobStart /\ EarlierRun.run) =>
              followup_run'.selected = followup_run.selected
       /\ (followup_run'.outcome = "done" /\ followup_run'.earlier.run) =>
              [k \in 1..Len(followup_run'.attempts) |->
                  followup_run'.attempts[k].appointment_id]
                  = followup_run'.earlier.selected]_vars

\* A second run of the day is over: it followed a run that had selected an
\* appointment, and it sent that appointment's reminder again.
C16_Witness ==
    /\ followup_run.outcome = "done"
    /\ followup_run.earlier.run
    /\ followup_run.earlier.selected # <<>>
    /\ followup_run.attempts[1].accepted


\* C17: creating a follow-up appointment whose parent_appointment_id is A
\* clears A's follow-up flag, so that the follow-up job, which selects
\* flagged appointments only, no longer selects A.
C17_BookedFollowUpClearsFlag ==
    [][\A i \in DOMAIN appointments :
          CreateFollowUpAppointment(i) =>
              appointments'[i].follow_up_required = 0]_vars


\* C18: mark_follow_up_complete(A) sets A's follow_up_required to 0 and
\* leaves its follow_up_date, its status and every other row as they are;
\* the flag comes back only through mark_follow_up_required, and no run of
\* the follow-up job selects an appointment whose flag is 0.
C18_CompletedFollowUpStaysOut ==
    [][/\ \A i \in DOMAIN appointments :
             CompleteFollowUp(i) =>
                 appointments' =
                     [appointments EXCEPT ![i].follow_up_required = 0]
       /\ \A i \in DOMAIN appointments :
             (/\ appointments[i].follow_up_required = 0
              /\ appointments'[i].follow_up_required = 1) =>
                 \E d \in {today, today + 1} : ScheduleFollowUp(i, d)
       /\ FollowUpJobStart =>
             \A i \in Range(followup_run'.selected) :
                 appointments[i].follow_up_required = 1]_vars

\* A run of the job is over that left out a completed appointment whose
\* follow-up date is today and whose follow-up was marked complete.
C18_Witness ==
    /\ followup_run.outcome \in {"empty", "done"}
    /\ \E i \in DOMAIN followup_run.table :
           /\ followup_run.table[i].status = "COMPLETED"
           /\ followup_run.table[i].follow_up_date = strftime(today)
           /\ followup_run.table[i].follow_up_required = 0
           /\ i \notin Range(followup_run.selected)


\* ------------------------------------------------------------ notifications
\* datetime('now', '-7 days'), datetime('now', '-30 days') and LIMIT 50.
ReadRetentionDays == 7
HardCeilingDays == 30
FetchLimit == 50

\* datetime(created_at) < datetime('now', '-N days'), with the clock at now.
OlderThan(created_at, now, days) == created_at < now - days

\* The DELETE of get_user_notifications without `user_id = ?`.
ReadAndOldOfAnyone(n, user_id, now) ==
    /\ n.is_read = 1
    /\ n.created_at < now - ReadRetentionDays

\* The DELETE of get_user_notifications with <= in the place of <.
ReadAndAtLeastAsOld(n, user_id, now) ==
    /\ n.user_id = user_id
    /\ n.is_read = 1
    /\ n.created_at <= now - ReadRetentionDays

\* The rows the DELETE of get_user_notifications removes.
ReadAndOld(n, user_id, now) ==
    /\ n.user_id = user_id
    /\ n.is_read = 1
    /\ OlderThan(n.created_at, now, ReadRetentionDays)

\* The rows the SELECT of get_user_notifications matches.
Fetchable(n, user_id, unread_only) ==
    /\ n.user_id = user_id
    /\ unread_only => n.is_read = 0

\* ORDER BY created_at DESC.  created_at is a timestamp and the model keeps
\* its day; the rows of one day are in the table in the order of their
\* timestamps, so of two of them the one further down the table is the newer.
\* The rows are split at the middle one into the newer and the older ones.
RECURSIVE NewestFirst(_)
NewestFirst(rows) ==
    IF Len(rows) <= 1 THEN rows
    ELSE LET m == (Len(rows) + 1) \div 2
             above == SubSeq(rows, 1, m - 1)
             below == SubSeq(rows, m + 1, Len(rows))
             newer == SelectSeq(above, LAMBDA n :
                                   n.created_at > rows[m].created_at)
                      \o SelectSeq(below, LAMBDA n :
                                      n.created_at >= rows[m].created_at)
             older == SelectSeq(above, LAMBDA n :
                                   n.created_at <= rows[m].created_at)
                      \o SelectSeq(below, LAMBDA n :
                                      n.created_at < rows[m].created_at)
         IN NewestFirst(newer) \o <<rows[m]>> \o NewestFirst(older)

\* LIMIT k
Limit(rows, k) == SubSeq(rows, 1, Min(k, Len(rows)))

\* get_user_notifications(user_id, unread_only): the DELETE, then the SELECT.
GetUserNotifications(user_id, unread_only) ==
    LET kept == SelectSeq(notifications,
                          LAMBDA n : ~ReadAndOld(n, user_id, today))
        matched == SelectSeq(kept,
                             LAMBDA n : Fetchable(n, user_id, unread_only))
    IN /\ events < MaxEvents
       /\ events' = events + 1
       /\ notifications' = kept
       /\ fetched' = [user_id |-> user_id, unread_only |-> unread_only,
                      rows |-> Limit(NewestFirst(matched), FetchLimit)]
       /\ UNCHANGED <<today, prescriptions, medication_reminders, pc,
                      job_today, patients_data, reminder_ids, cursor, mailbox,
                      last_run, windows_dirty>>
       /\ UNCHANGED <<fuVars, rateVars>>

\* mark_notifications_as_read(user_id)
MarkNotificationsAsRead(user_id) ==
    /\ events < MaxEvents
    /\ events' = events + 1
    /\ notifications' =
           [i \in DOMAIN notifications |->
               IF notifications[i].user_id = user_id
                  /\ notifications[i].is_read = 0
               THEN [notifications[i] EXCEPT !.is_read = 1]
               ELSE notifications[i]]
    /\ UNCHANGED <<today, prescriptions, medication_reminders, pc, job_today,
                   patients_data, reminder_ids, cursor, mailbox, last_run,
                   windows_dirty>>
    /\ UNCHANGED <<fuVars, rateVars, webVars>>

\* A sweep that spares the unread rows.
PastCeilingAndRead(n, now) ==
    /\ n.is_read = 1
    /\ OlderThan(n.created_at, now, HardCeilingDays)

\* The rows the DELETE of cleanup_old_notifications removes.
PastCeiling(n, now) == OlderThan(n.created_at, now, HardCeilingDays)

\* cleanup_old_notifications()
CleanupOldNotifications ==
    /\ events < MaxEvents
    /\ events' = events + 1
    /\ notifications' =
           SelectSeq(notifications, LAMBDA n : ~PastCeiling(n, today))
    /\ UNCHANGED <<today, prescriptions, medication_reminders, pc, job_today,
                   patients_data, reminder_ids, cursor, mailbox, last_run,
                   windows_dirty>>
    /\ UNCHANGED <<fuVars, rateVars, webVars>>

\* Days pass without a request or a job run.
DaysPass(days) ==
    /\ events < MaxEvents
    /\ events' = events + 1
    /\ pc = "idle"
    /\ fu_pc = "idle"
    /\ today' = today + days
    /\ mailbox' = <<>>
    /\ last_run' = NoRun
    /\ windows_dirty' = FALSE
    /\ followup_run' = NoFollowUpRun
    /\ UNCHANGED <<prescriptions, medication_reminders, notifications, pc,
                   job_today, patients_data, reminder_ids, cursor>>
    /\ UNCHANGED <<appointments, fu_pc, followups, appt, rateVars, webVars>>


\* The notifications table when the behaviours of SpecNotif start, in the
\* order of the inserts: patient 1 has let notifications pile up unread, one a
\* day over the last FetchLimit + 1 days, and patient 2 has unread ones
\* created 31, 30, 8 and 7 days ago.
Stock ==
    LET day(i) == FirstDay - (FetchLimit + 1) + (i + 1) \div 2
        row(i) == IF i % 2 = 1 THEN FollowUpNotification(1, 1, day(i))
                  ELSE FollowUpNotification(2, 3, day(i))
    IN SelectSeq([i \in 1..(2 * (FetchLimit + 1)) |-> row(i)],
                 LAMBDA n : \/ n.user_id = 1
                            \/ FirstDay - n.created_at \in {31, 30, 8, 7})

InitNotif ==
    /\ today = FirstDay
    /\ prescriptions = <<>>
    /\ medication_reminders = <<>>
    /\ notifications = Stock
    /\ pc = "idle"
    /\ job_today = 0
    /\ patients_data = <<>>
    /\ reminder_ids = <<>>
    /\ cursor = 0
    /\ mailbox = <<>>
    /\ last_run = NoRun
    /\ events = 0
    /\ windows_dirty = FALSE
    /\ appointments = FollowUpAppointments
    /\ fu_pc = "idle"
    /\ followups = <<>>
    /\ appt = 0
    /\ followup_run = NoFollowUpRun
    /\ doctor_ratings = <<>>
    /\ doctor_details = [d \in Doctors |-> NoRatings]
    /\ rate_doctor = [w \in Workers |-> NoRequest]
    /\ fetched = NoFetch

\* One appointment of each patient, to schedule follow-ups for.
NotifAppointments == {1, 3}

NextNotif ==
    \/ \E i \in NotifAppointments : ScheduleFollowUp(i, today)
    \/ \E u \in Patients : MarkNotificationsAsRead(u)
    \/ \E u \in Patients, unread_only \in BOOLEAN :
          GetUserNotifications(u, unread_only)
    \/ CleanupOldNotifications
    \/ \E days \in {1, 7} : DaysPass(days)

SpecNotif == InitNotif /\ [][NextNotif]_vars


\* rows is ordered newest first: no row is older than the one behind it.
IsNewestFirst(rows) ==
    \A k \in 1..(Len(rows) - 1) : rows[k].created_at >= rows[k + 1].created_at

\* The rows of table among which a fetch of user u chooses.
Candidates(table, u, unread_only) ==
    {i \in DOMAIN table :
        /\ table[i].user_id = u
        /\ unread_only => table[i].is_read = 0}

\* The step removes from the table user u's read rows created more than
\* ReadRetentionDays days ago, and nothing else.
PurgesReadWeekOld(u) ==
    notifications' =
        SelectSeq(notifications,
                  LAMBDA n : ~(/\ n.user_id = u
                               /\ n.is_read = 1
                               /\ n.created_at < today - ReadRetentionDays))

\* The result of the step's fetch: at most FetchLimit rows of user u that
\* are in the table after the purge, newest first, none of them older than a
\* candidate that was left out.
ReturnsNewest(u, unread_only) ==
    LET rows == fetched'.rows
        result == Range(rows)
        candidates == Candidates(notifications', u, unread_only)
    IN /\ Len(rows) = Min(FetchLimit, Cardinality(candidates))
       /\ IsNewestFirst(rows)
       /\ result \subseteq {notifications'[i] : i \in candidates}
       /\ \A i \in candidates :
              notifications'[i] \notin result =>
                  \A k \in DOMAIN rows :
                      rows[k].created_at >= notifications'[i].created_at

\* Row n is in the result of the step's fetch.
InResult(n) == \E k \in DOMAIN fetched'.rows : fetched'.rows[k] = n

\* In the two formulas of C19 the fetch a step makes is looked for under the
\* user_id and unread_only that the step leaves in fetched.
\* C19 as it is stated: a fetch purges the user's read notifications older
\* than 7 days and returns at most 50 of the user's notifications, newest
\* first; a read notification of the user created 8 days ago is absent from
\* the result and one created 6 days ago is present in it, whatever
\* unread_only is.
C19_ReadSixDaysOldIsFetched ==
    [][\A u \in {fetched'.user_id}, unread_only \in {fetched'.unread_only} :
          GetUserNotifications(u, unread_only) =>
              /\ PurgesReadWeekOld(u)
              /\ Len(fetched'.rows) <= FetchLimit
              /\ IsNewestFirst(fetched'.rows)
              /\ \A i \in DOMAIN notifications :
                    LET n == notifications[i]
                    IN (n.user_id = u /\ n.is_read = 1) =>
                          /\ n.created_at = today - 8 =>
                                 ~InResult(n)
                          /\ n.created_at = today - 6 =>
                                 InResult(n)]_vars

\* C19: a fetch purges the user's read notifications created more than 7
\* days ago and returns the newest of the user's remaining notifications (the
\* unread ones only, when unread_only is set), at most 50, newest first.  So
\* a read notification created more than 7 days ago is absent from the
\* result, and a read notification created at most 7 days ago is present in
\* it when unread_only is not set and at most 50 of the user's notifications
\* are as new as it or newer.
C19_FetchPurgesThenReturnsNewest ==
    [][\A u \in {fetched'.user_id}, unread_only \in {fetched'.unread_only} :
          GetUserNotifications(u, unread_only) =>
              /\ PurgesReadWeekOld(u)
              /\ ReturnsNewest(u, unread_only)
              /\ \A i \in DOMAIN notifications :
                    LET n == notifications[i]
                        as_new == {j \in DOMAIN notifications' :
                                      /\ notifications'[j].user_id = u
                                      /\ notifications'[j].created_at
                                             >= n.created_at}
                    IN (n.user_id = u /\ n.is_read = 1) =>
                          /\ n.created_at < today - ReadRetentionDays =>
                                 ~InResult(n)
                          /\ (/\ n.created_at >= today - ReadRetentionDays
                              /\ ~unread_only
                              /\ Cardinality(as_new) <= FetchLimit) =>
                                 InResult(n)]_vars

\* Patient 1 has read the notifications and fetched all of them: the ones
\* read and older than 7 days are gone from the table, and the read ones of 6
\* and of 7 days ago are in the result.
C19_Witness ==
    /\ fetched.user_id = 1
    /\ ~fetched.unread_only
    /\ Len(notifications) < Len(Stock)
    /\ \A i \in DOMAIN notifications :
          (notifications[i].user_id = 1 /\ notifications[i].is_read = 1) =>
              notifications[i].created_at >= today - ReadRetentionDays
    /\ \E k \in DOMAIN fetched.rows :
          fetched.rows[k].is_read = 1 /\ fetched.rows[k].created_at = today - 6
    /\ \E k \in DOMAIN fetched.rows :
          fetched.rows[k].is_read = 1 /\ fetched.rows[k].created_at = today - 7


\* C20: cleanup_old_notifications removes from the table the notifications
\* created more than 30 days ago, of every user and read or unread, and no
\* notification created 30 days ago or later.
C20_SweepRemovesExactlyPastCeiling ==
    [][CleanupOldNotifications =>
          /\ notifications' =
                 SelectSeq(notifications,
                           LAMBDA n : n.created_at >= today - HardCeilingDays)
          /\ \A i \in DOMAIN notifications :
                 notifications[i].created_at < today - HardCeilingDays =>
                     notifications[i] \notin Range(notifications')]_vars

\* Nobody has fetched, so only the sweep has removed rows: the 20 of patient
\* 1 and the one of patient 2 that were created more than 30 days ago are
\* gone, the unread one of patient 1 and the read one of patient 2 that were
\* created 30 days ago are still there.
C20_Witness ==
    /\ fetched = NoFetch
    /\ today = FirstDay
    /\ Len(notifications) = Len(Stock) - 21
    /\ \A i \in DOMAIN notifications :
          notifications[i].created_at >= today - HardCeilingDays
    /\ \E i \in DOMAIN notifications :
          /\ notifications[i].user_id = 1
          /\ notifications[i].is_read = 0
          /\ notifications[i].created_at = today - HardCeilingDays
    /\ \E i \in DOMAIN notifications :
          /\ notifications[i].user_id = 2
          /\ notifications[i].is_read = 1
          /\ notifications[i].created_at = today - HardCeilingDays


\* ------------------------------------------------ the sections of the email
\* The timing texts of the stored medicines in SpecEmail: none (the key is
\* missing or its text is empty), the placeholder, period names as
\* write_prescription joins them, one in capitals, and one that names no
\* period.
Timings ==
    { <<>>, <<"-">>, <<"Morning">>, <<"Night">>,
      <<"Morning", ", ", "Night">>, <<"Afternoon", ", ", "Evening">>,
      <<"N", "I", "G", "H", "T">>, <<"S", "O", "S">> }

\* A stored medicine, prescribed for one day.
Medicine(name, timing) ==
    [name |-> name, dosage |-> Dose, duration |-> <<"1", Space, "days">>,
     timing |-> timing]

\* The lists of the prescriptions patient 1 has in SpecEmail: one
\* prescription with medicine A, or one with A and a later one with B.
StoredLists ==
    {<<(<<Medicine(A, t)>>)>> : t \in Timings}
    \cup {<<(<<Medicine(A, t)>>), (<<Medicine(B, u)>>)>> : t, u \in Timings}

\* The prescriptions of StoredLists were written today, each with its
\* notification and its window.
InitEmail ==
    /\ today = FirstDay
    /\ \E lists \in StoredLists :
          /\ prescriptions =
                 [i \in 1..Len(lists) |-> PrescriptionRow(1, lists[i])]
          /\ medication_reminders =
                 [i \in 1..Len(lists) |-> ReminderRow(i, 1, 1, FirstDay)]
          /\ notifications =
                 [i \in 1..Len(lists) |->
                     PrescriptionNotification(1, i, FirstDay)]
    /\ pc = "idle"
    /\ job_today = 0
    /\ patients_data = <<>>
    /\ reminder_ids = <<>>
    /\ cursor = 0
    /\ mailbox = <<>>
    /\ last_run = NoRun
    /\ events = 0
    /\ windows_dirty = FALSE
    /\ appointments = <<>>
    /\ fu_pc = "idle"
    /\ followups = <<>>
    /\ appt = 0
    /\ followup_run = NoFollowUpRun
    /\ doctor_ratings = <<>>
    /\ doctor_details = [d \in Doctors |-> NoRatings]
    /\ rate_doctor = [w \in Workers |-> NoRequest]
    /\ fetched = NoFetch

NextEmail ==
    \/ Tick
    \/ MedJobStart
    \/ MedJobSendOk
    \/ MedJobSendFail
    \/ MedJobUpdate
    \/ MedJobUpdateFail

SpecEmail == InitEmail /\ [][NextEmail]_vars

\* The text names the period, whatever the case of its letters.
NamesPeriod(timing, period) ==
    LET text == Spelled(timing)
        word == Letters(period)
    IN \E off \in 0..(Len(text) - Len(word)) :
           \A k \in 1..Len(word) :
               LowerChar(text[off + k]) = LowerChar(word[k])

\* The medicines of the list that belong under a heading of the email.
BelongsUnder(med, bucket) ==
    IF bucket = "Anytime"
    THEN med.timing = <<>> \/ med.timing = <<"-">>
    ELSE NamesPeriod(med.timing, bucket)

\* C21: in every email each section lists, in the order of the merged list,
\* the medicines whose timing names the section's period in any case (a
\* medicine that names several periods is in each of them), and Anytime
\* lists the medicines whose timing is missing, empty or '-'.
C21_BucketsFollowTiming ==
    \A m \in DOMAIN mailbox :
        \A b \in DOMAIN BucketNames :
            LET under == SelectSeq(mailbox[m].all_medicines,
                                   LAMBDA med : BelongsUnder(med, BucketNames[b]))
            IN mailbox[m].buckets[BucketNames[b]] =
                   [k \in 1..Len(under) |->
                       [name |-> under[k].name, dosage |-> under[k].dosage]]

\* One email with A of the first prescription under Morning only and B of
\* the second under Night only.
C21_Witness ==
    /\ Len(prescriptions) = 2
    /\ Len(mailbox) = 1
    /\ mailbox[1].all_medicines =
           <<Medicine(A, <<"Morning">>), Medicine(B, <<"Night">>)>>
    /\ mailbox[1].buckets =
           [Morning |-> <<[name |-> A, dosage |-> Dose]>>,
            Afternoon |-> <<>>, Evening |-> <<>>,
            Night |-> <<[name |-> B, dosage |-> Dose]>>,
            Anytime |-> <<>>]


NamedRows(form) ==
    {i \in 1..Len(form.medicine_name) :
        /\ i <= Len(form.medicine_dosage)
        /\ i <= Len(form.medicine_duration)
        /\ RowFilled(form, i)}

\* C23: a prescription write stores every medicine of the form, also those
\* whose duration is not a positive whole number, and does not fail; such a
\* medicine counts 0 days, so the window ends on the largest duration of the
\* other medicines, and there is no window when no medicine has a positive
\* duration.
C23_MalformedDurationCountsZero ==
    [][\A f \in RxForms :
          WritePrescription(1, f) =>
              LET k == Len(prescriptions')
                  medicines == prescriptions'[k].medicines_json
                  counted == SelectSeq(medicines,
                                       LAMBDA med : StatedDays(med) > 0)
                  created == {i \in DOMAIN medication_reminders' :
                                 medication_reminders'[i].prescription_id = k}
              IN /\ k = Len(prescriptions) + 1
                 /\ Len(medicines) = Cardinality(NamedRows(f))
                 /\ IF counted = <<>>
                    THEN created = {}
                    ELSE /\ Cardinality(created) = 1
                         /\ \A i \in created :
                                medication_reminders'[i].end_date =
                                    strftime(today + StatedMax(counted))]_vars


\* ------------------------------------------------------- closing a window
\* Every table but medication_reminders, and the jobs' locals.
AllButWindows ==
    <<today, prescriptions, notifications, pc, job_today, patients_data,
      reminder_ids, cursor, mailbox, appointments, doctor_ratings,
      doctor_details>>

\* C24: deactivate_medication_reminder(k) sets is_active to 0 on the window
\* of prescription k and changes no other field, row or table; on a window
\* that is closed already, and for a prescription without a window, it
\* changes nothing.
C24_DeactivateIsIdempotent ==
    [][\A k \in 1..(Len(prescriptions) + 1) :
          DeactivateMedicationReminder(k) =>
              /\ UNCHANGED AllButWindows
              /\ DOMAIN medication_reminders' = DOMAIN medication_reminders
              /\ \A i \in DOMAIN medication_reminders :
                    IF medication_reminders[i].prescription_id = k
                    THEN /\ medication_reminders'[i].is_active = 0
                         /\ medication_reminders'[i] =
                                [medication_reminders[i] EXCEPT !.is_active = 0]
                    ELSE medication_reminders'[i] = medication_reminders[i]
              /\ (\A i \in WindowsOf(k) :
                      medication_reminders[i].is_active = 0) =>
                     UNCHANGED medication_reminders]_vars

\* Four requests on one day without a job run: two prescriptions written and
\* the closing called twice, of which at least once for the first
\* prescription and the other time for it again or for a prescription
\* without a window; the first window is closed and the second still open.
C24_Witness ==
    /\ today = FirstDay
    /\ events = 4
    /\ last_run = NoRun
    /\ Len(prescriptions) = 2
    /\ Len(medication_reminders) = 2
    /\ medication_reminders[1].is_active = 0
    /\ medication_reminders[2].is_active = 1


\* ------------------------------------------------ one window a prescription
\* C25: no prescription ever has two windows: a step adds at most one row to
\* medication_reminders, only together with the prescription it is the
\* window of, and no step removes a window or files it under another
\* prescription.
C25_OneWindowPerPrescription ==
    [][/\ \A k \in DOMAIN prescriptions' :
             Cardinality({i \in DOMAIN medication_reminders' :
                             medication_reminders'[i].prescription_id = k}) <= 1
       /\ \A i \in DOMAIN medication_reminders :
             /\ i \in DOMAIN medication_reminders'
             /\ medication_reminders'[i].prescription_id =
                    medication_reminders[i].prescription_id
       /\ Len(medication_reminders') > Len(medication_reminders) =>
             /\ Len(medication_reminders') = Len(medication_reminders) + 1
             /\ Len(prescriptions') = Len(prescriptions) + 1
             /\ medication_reminders'[Len(medication_reminders')].prescription_id
                    = Len(prescriptions')]_vars

\* Two prescriptions, each with its one window, after a job run has written
\* last_sent_date and one window was closed.
C25_Witness ==
    /\ Len(prescriptions) = 2
    /\ \A k \in DOMAIN prescriptions : Cardinality(WindowsOf(k)) = 1
    /\ \E i \in DOMAIN medication_reminders :
          medication_reminders[i].last_sent_date # NULL
    /\ \E i \in DOMAIN medication_reminders :
          medication_reminders[i].is_active = 0


\* ------------------------------------------------- what the job leaves alone
\* A step of send_daily_medication_reminders.
MedJobStep ==
    \/ MedJobStart
    \/ MedJobSendOk
    \/ MedJobSendFail
    \/ MedJobUpdate
    \/ MedJobUpdateFail

\* Window i is past its end_date.
Expired(i) == DateOf(medication_reminders[i].end_date) < today

\* What a step leaves of the windows: none removed or added, of a window
\* last_sent_date changed at most, and that only on the windows the run
\* selected; a window past its end_date not selected and as it was.
OnlyLastSentDateWritten ==
    /\ DOMAIN medication_reminders' = DOMAIN medication_reminders
    /\ \A i \in DOMAIN medication_reminders :
          /\ medication_reminders'[i] =
                 [medication_reminders[i] EXCEPT
                     !.last_sent_date =
                         medication_reminders'[i].last_sent_date]
          /\ medication_reminders'[i] # medication_reminders[i] =>
                 i \in last_run.selected
          /\ Expired(i) =>
                 /\ i \notin last_run'.selected
                 /\ medication_reminders'[i] = medication_reminders[i]

\* C26: no step of the job removes or adds a window; of a window it changes
\* last_sent_date at most, and that only on the windows the run selected.  A
\* window past its end_date is not selected and stays as it is.  (Written as
\* "the step leaves that, or it is no step of the job".)
C26_JobWritesOnlyLastSentDate ==
    [][OnlyLastSentDateWritten \/ ~MedJobStep]_vars

\* A run has ended with its UPDATE: a window it selected carries today's
\* date, and a window that expired before the run is stored as it was
\* created, never sent and still active.
C26_Witness ==
    /\ last_run.outcome = "updated"
    /\ last_run.day = today
    /\ \E j \in last_run.selected :
          medication_reminders[j].last_sent_date = strftime(today)
    /\ \E i \in DOMAIN medication_reminders :
          /\ Expired(i)
          /\ i \notin last_run.selected
          /\ medication_reminders[i].last_sent_date = NULL
          /\ medication_reminders[i].is_active = 1


\* ------------------------------------------------------- the merged list
\* The medicine lists of the windows `ids`, one after the other, the window
\* of the prescription written first ahead.
RECURSIVE Concatenated(_)
Concatenated(ids) ==
    IF ids = {} THEN <<>>
    ELSE LET first == CHOOSE i \in ids :
                 \A j \in ids :
                     medication_reminders[i].prescription_id
                         <= medication_reminders[j].prescription_id
         IN prescriptions[medication_reminders[first].prescription_id].medicines_json
            \o Concatenated(ids \ {first})

RECURSIVE SumOfLengths(_)
SumOfLengths(ids) ==
    IF ids = {} THEN 0
    ELSE LET i == CHOOSE j \in ids : TRUE
         IN Len(prescriptions[medication_reminders[i].prescription_id].medicines_json)
            + SumOfLengths(ids \ {i})

\* C27: the list a run hands to send_medication_email for a patient is the
\* medicine lists of the patient's selected windows one after the other, in
\* the order the prescriptions were written and each list as stored; nothing
\* is left out for occurring twice, so its length is the sum of theirs.
C27_MergedListIsConcatenation ==
    \A k \in DOMAIN last_run.attempts :
        LET p == last_run.attempts[k].patient_id
        IN /\ last_run.attempts[k].all_medicines = Concatenated(SelectedOf(p))
           /\ Len(last_run.attempts[k].all_medicines)
                  = SumOfLengths(SelectedOf(p))

\* A run merged two prescriptions of one patient that both hold medicine A
\* into a list with A twice.
C27_Witness ==
    \E k \in DOMAIN last_run.attempts :
        LET list == last_run.attempts[k].all_medicines
        IN /\ Cardinality(SelectedOf(last_run.attempts[k].patient_id)) = 2
           /\ Len(list) = 2
           /\ list[1] = list[2]


\* ------------------------------------------------- the dates of a window
\* start_date, last_sent_date and end_date of window r are in order.
DatesInOrder(r) ==
    /\ DateOf(r.start_date) <= DateOf(r.end_date)
    /\ r.last_sent_date # NULL =>
          /\ DateOf(r.start_date) <= DateOf(r.last_sent_date)
          /\ DateOf(r.last_sent_date) <= DateOf(r.end_date)

\* C28: every window has start_date <= end_date and, once sent, start_date
\* <= last_sent_date <= end_date.  last_sent_date is only ever written with
\* the day of the run in progress, the latest one, so it lies on no later
\* day; and what a run writes is later than what it overwrites.
C28_WindowDatesInOrder ==
    [][\A i \in DOMAIN medication_reminders' :
          LET new == medication_reminders'[i]
          IN /\ DatesInOrder(new)
             /\ new.last_sent_date # NULL =>
                    DateOf(new.last_sent_date) <= today'
             /\ (/\ i \in DOMAIN medication_reminders
                 /\ new.last_sent_date # medication_reminders[i].last_sent_date) =>
                    LET old == medication_reminders[i]
                    IN /\ new.last_sent_date = strftime(last_run.day)
                       /\ last_run.day = today
                       /\ old.last_sent_date # NULL =>
                              DateOf(old.last_sent_date)
                                  < DateOf(new.last_sent_date)]_vars

\* The day after it was written a two-day window has been sent today:
\* start_date < last_sent_date < end_date.
C28_Witness ==
    \E i \in DOMAIN medication_reminders :
        LET r == medication_reminders[i]
        IN /\ last_run.outcome = "updated"
           /\ i \in last_run.selected
           /\ r.last_sent_date = strftime(today)
           /\ DateOf(r.start_date) < today
           /\ today < DateOf(r.end_date)


\* --------------------------------------------- what a fetch leaves stored
\* The notifications a fetch of user u has to leave alone: those of other
\* users, u's unread ones, and u's read ones created at most 7 days ago.
Protected(n, u) ==
    \/ n.user_id # u
    \/ n.is_read = 0
    \/ n.created_at >= today - ReadRetentionDays

\* C29: get_user_notifications(u, ...) leaves every notification of another
\* user, every unread one of u and every read one of u created at most 7
\* days ago stored as it was, adds no row, and changes no is_read flag: what
\* is stored afterwards is the protected rows, as they were.
C29_FetchRemovesOnlyOwnReadOld ==
    [][\A u \in {fetched'.user_id}, unread_only \in {fetched'.unread_only} :
          GetUserNotifications(u, unread_only) =>
              /\ SelectSeq(notifications', LAMBDA n : Protected(n, u))
                     = SelectSeq(notifications, LAMBDA n : Protected(n, u))
              /\ \A j \in DOMAIN notifications' :
                    /\ Protected(notifications'[j], u)
                    /\ \E i \in DOMAIN notifications :
                           notifications[i] = notifications'[j]
              /\ \A v \in Patients :
                    Cardinality({j \in DOMAIN notifications' :
                                    /\ notifications'[j].user_id = v
                                    /\ notifications'[j].is_read = 0})
                        = Cardinality({i \in DOMAIN notifications :
                                          /\ notifications[i].user_id = v
                                          /\ notifications[i].is_read = 0})]_vars

\* Patient 1's fetch has purged the read notifications; the unread one of
\* patient 1 created more than 7 days ago and the four of patient 2 are
\* still stored.
C29_Witness ==
    /\ fetched.user_id = 1
    /\ Len(notifications) < Len(Stock)
    /\ \A i \in DOMAIN notifications :
          notifications[i].user_id = 1 =>
              \/ notifications[i].is_read = 0
              \/ notifications[i].created_at >= today - ReadRetentionDays
    /\ \E i \in DOMAIN notifications :
          /\ notifications[i].user_id = 1
          /\ notifications[i].is_read = 0
          /\ notifications[i].created_at < today - ReadRetentionDays
    /\ Cardinality({i \in DOMAIN notifications :
                       /\ notifications[i].user_id = 2
                       /\ notifications[i].created_at < FirstDay}) = 4


\* ------------------------------------------------ the days a window is sent
\* The forms of SpecDays: A for one day, and A for one day with B for two.
DayForms ==
    { Form(<<A>>, <<Dose>>, <<(<<"1">>)>>, <<"on">>, <<>>, <<>>, <<>>),
      Form(<<A, B>>, <<Dose, Dose>>, <<(<<"1">>), (<<"2">>)>>,
           <<"on">>, <<>>, <<>>, <<>>) }

\* What is stored when the behaviours of SpecDays start: nothing, or one
\* prescription of patient 1 written today before the job's hour, or written
\* yesterday, before yesterday's run (and sent then) or after it.
StoredDays ==
    {[day |-> 0, sent |-> FALSE, form |-> f] : f \in DayForms}
    \cup {[day |-> FirstDay, sent |-> FALSE, form |-> f] : f \in DayForms}
    \cup {[day |-> FirstDay - 1, sent |-> s, form |-> f] :
             s \in BOOLEAN, f \in DayForms}

InitDays ==
    /\ today = FirstDay
    /\ \E stored \in StoredDays :
          LET medicines == CollectMedicines(stored.form)
              row == ReminderRow(1, 1, MaxDuration(medicines), stored.day)
          IN IF stored.day = 0
             THEN /\ prescriptions = <<>>
                  /\ medication_reminders = <<>>
                  /\ notifications = <<>>
             ELSE /\ prescriptions = <<PrescriptionRow(1, medicines)>>
                  /\ medication_reminders =
                         <<[row EXCEPT !.last_sent_date =
                               IF stored.sent THEN strftime(stored.day)
                               ELSE NULL]>>
                  /\ notifications =
                         <<PrescriptionNotification(1, 1, stored.day)>>
    /\ pc = "idle"
    /\ job_today = 0
    /\ patients_data = <<>>
    /\ reminder_ids = <<>>
    /\ cursor = 0
    /\ mailbox = <<>>
    /\ last_run = NoRun
    /\ events = 0
    /\ windows_dirty = FALSE
    /\ appointments = <<>>
    /\ fu_pc = "idle"
    /\ followups = <<>>
    /\ appt = 0
    /\ followup_run = NoFollowUpRun
    /\ doctor_ratings = <<>>
    /\ doctor_details = [d \in Doctors |-> NoRatings]
    /\ rate_doctor = [w \in Workers |-> NoRequest]
    /\ fetched = NoFetch

\* The cron trigger fires once a day.
MedJobStartOnce == last_run = NoRun /\ MedJobStart

\* The job once a day, every send accepted, no window closed.
NextDays ==
    \/ \E f \in DayForms : WritePrescription(1, f)
    \/ Tick
    \/ MedJobStartOnce
    \/ MedJobSendOk
    \/ MedJobUpdate
    \/ MedJobUpdateFail

SpecDays == InitDays /\ [][NextDays]_vars

\* Today's run is over.
RanToday ==
    /\ last_run.day = today
    /\ last_run.outcome \in {"empty", "updated", "update_failed"}

\* Today is one of the D + 1 days from the start_date of window i to D days
\* later, D the largest duration of the medicines of its prescription.
OnItsDays(i) ==
    LET start == DateOf(medication_reminders[i].start_date)
    IN /\ start <= today
       /\ today <= start + StatedMax(MedicinesOf(i))

\* An email of today to the patient of window i that stems from that window
\* and lists all the medicines of its prescription.
MailedToday(i) ==
    \E m \in DOMAIN mailbox :
        /\ mailbox[m].patient_id = PatientOf(i)
        /\ i \in mailbox[m].windows
        /\ Contains(mailbox[m].all_medicines, MedicinesOf(i))

\* C30 as it is stated: with the job run once a day and every send accepted,
\* on a day whose run is over a window has been mailed exactly when the day
\* is one of its D + 1 days.
C30_MailedOnEachOfItsDays ==
    RanToday =>
        \A i \in DOMAIN medication_reminders : MailedToday(i) <=> OnItsDays(i)

\* C30: the same for the days whose run began with the window written: no
\* prescription was written between the start of the day's run and now.
C30_MailedOnEachDayItWasDue ==
    (RanToday /\ ~windows_dirty) =>
        \A i \in DOMAIN medication_reminders : MailedToday(i) <=> OnItsDays(i)

\* The last of the three days of a two-day window: the prescription with A
\* for one day and B for two was written two days ago and the email of today
\* lists both.
C30_Witness ==
    /\ RanToday
    /\ ~windows_dirty
    /\ \E i \in DOMAIN medication_reminders :
          /\ StatedMax(MedicinesOf(i)) = 2
          /\ Len(MedicinesOf(i)) = 2
          /\ DateOf(medication_reminders[i].start_date) + 2 = today
          /\ MailedToday(i)

\* The day after the last: the run is over and the window was not mailed.
C30_WitnessAfter ==
    /\ RanToday
    /\ ~windows_dirty
    /\ \E i \in DOMAIN medication_reminders :
          /\ DateOf(medication_reminders[i].end_date) < today
          /\ ~MailedToday(i)

====
